---- MODULE Spec2Model ----
(***************************************************************************)
(* A model of ms_to_camelot: the MainStage reader (parser_mainstage.py),   *)
(* the normalized model (models.py) and the Camelot session mapper         *)
(* (emit_camelot.py).                                                      *)
(*                                                                         *)
(* Python values are tagged records: None, PBool(b), PInt(i), PFloat(x),   *)
(* PStr(s), PList(l), PDict(d), PBytes(..).  A str is a sequence of        *)
(* characters; a character is a one-character string, except "TAB"         *)
(* (U+0009) and "EMDASH" (U+2014).  A dict is a function from its keys to  *)
(* values.  The floats of the model are integer-valued.                    *)
(* Every component has its own specification: Init draws an input from a   *)
(* bounded set and the actions apply the component's functions to it.      *)
(***************************************************************************)
EXTENDS Integers, Sequences, FiniteSets, TLC

VARIABLES
    pc,          \* position of the run within the component under check
    name_in,     \* normalize_name: the argument (a Python value)
    name_once,   \* normalize_name(name_in)
    name_twice,  \* normalize_name(normalize_name(name_in))
    concert,     \* build_camelot_session: the normalized model passed in
    flatten_sets,\* build_camelot_session: the mode flag
    session,     \* build_camelot_session: the session returned
    low_in,      \* the raw low note of a strip or of an archived layer
    high_in,     \* the raw high note
    strip_in,    \* the raw strip, or the legacy channel, that holds them
    range_out,   \* infer_key_range(strip_in)
    legacy_out,  \* parse_legacy_channel(strip_in, None): raised, or its value
    raw_doc,     \* the loaded document handed to the tree walker
    walk_out,    \* extract_sets_and_patches(raw_doc): raised, or its value
    class_out,   \* classify_node on a root child: the node, raised, or its value
    input_kind,  \* what the path given to resolve_projectdata names
    fs,          \* the entries below that path: relative path -> kind and size
    resolved,    \* resolve_projectdata(path): raised, or the document's path
    session_again, \* build_camelot_session called a second time on the same input
    note_in,     \* midi_to_note: the argument
    note_out,    \* midi_to_note(note_in)
    raw_patch,   \* the decoded data.plist of a legacy patch directory
    bpm_legacy,  \* infer_bpm_from_patch_dict(raw_patch)
    bpm_generic, \* infer_bpm_from_node on the patch map of raw_patch
    folder,      \* the legacy patch folder: its entries, as paths below it
    legacy_sets  \* extract_from_patch_folder(folder): raised, or its value

namesVars == <<name_in, name_once, name_twice>>
mapperVars == <<concert, flatten_sets, session, session_again>>
stripVars == <<low_in, high_in, strip_in, range_out, legacy_out>>
walkerVars == <<raw_doc, walk_out, class_out>>
resolverVars == <<input_kind, fs, resolved>>
notesVars == <<note_in, note_out>>
tempoVars == <<raw_patch, bpm_legacy, bpm_generic>>
folderVars == <<folder, legacy_sets>>
vars == <<pc, namesVars, mapperVars, stripVars, walkerVars, resolverVars, notesVars,
          tempoVars, folderVars>>

(***************************************************************************)
(* Bounds of the model                                                     *)
(***************************************************************************)
MaxNameLen == 4
MaxPatches == 3
MaxClock == 2
KeyMargin == 2
MaxChildren == 2
MaxSize == 2
NoteMargin == 2
MaxDepth == 2

(***************************************************************************)
(* Python values                                                           *)
(***************************************************************************)
None == [t |-> "none"]
PInt(i) == [t |-> "int", v |-> i]
PStr(s) == [t |-> "str", v |-> s]
PList(l) == [t |-> "list", v |-> l]
PDict(d) == [t |-> "dict", v |-> d]
PBool(b) == [t |-> "bool", v |-> b]
PFloat(x) == [t |-> "float", v |-> x]

\* A bytes value is given by what plistlib.loads makes of it: plist says whether
\* it decodes, doc is the decoded document.
PBytes(empty, plist, doc) == [t |-> "bytes", v |-> [empty |-> empty, plist |-> plist, doc |-> doc]]

EmptyDict == [k \in {} |-> None]

\* a field that a document's map does not have
Absent == [t |-> "absent"]

\* the dict that holds the fields of f that are not Absent
DictOf(f) == PDict([k \in { x \in DOMAIN f : f[x].t # "absent" } |-> f[k]])

\* Python truthiness of a value
Truthy(x) ==
    CASE x.t = "none" -> FALSE
      [] x.t = "int" -> x.v # 0
      [] x.t = "bool" -> x.v
      [] x.t = "str" -> Len(x.v) > 0
      [] x.t = "list" -> Len(x.v) > 0
      [] x.t = "dict" -> DOMAIN x.v # {}
      [] x.t = "float" -> x.v # 0
      [] x.t = "bytes" -> ~x.v.empty
      [] OTHER -> TRUE

\* d.get(k) on a dict payload d
Get(d, k) == IF k \in DOMAIN d THEN d[k] ELSE None

\* a or b
Or(a, b) == IF Truthy(a) THEN a ELSE b

\* d[k] = v on a copy of the dict payload d
DictSet(d, k, v) == [x \in (DOMAIN d) \cup {k} |-> IF x = k THEN v ELSE d[x]]

\* {x: v for x, v in d.items() if x != k}
DictWithout(d, k) == [x \in (DOMAIN d) \ {k} |-> d[x]]

\* [f(x) for x in s]
RECURSIVE MapSeq(_, _)
MapSeq(F(_), s) == IF Len(s) = 0 THEN <<>> ELSE <<F(Head(s))>> \o MapSeq(F, Tail(s))

\* the concatenation of the sequences in ss
RECURSIVE Concat(_)
Concat(ss) == IF Len(ss) = 0 THEN <<>> ELSE Head(ss) \o Concat(Tail(ss))

(***************************************************************************)
(* Strings                                                                 *)
(***************************************************************************)
SP == " "
TAB == "TAB"
EMDASH == "EMDASH"
Whitespace == {SP, TAB}

\* the separator " — " that replaces a path separator
DashSep == <<SP, EMDASH, SP>>

\* s[from..] starts with the sequence old
StartsWith(s, old) ==
    /\ Len(s) >= Len(old)
    /\ \A i \in 1..Len(old) : s[i] = old[i]

\* str.replace(old, new): leftmost, non-overlapping occurrences
RECURSIVE Replace(_, _, _)
Replace(s, old, new) ==
    IF Len(s) < Len(old) \/ Len(s) = 0 THEN s
    ELSE IF StartsWith(s, old)
         THEN new \o Replace(SubSeq(s, Len(old) + 1, Len(s)), old, new)
         ELSE <<Head(s)>> \o Replace(Tail(s), old, new)

\* str.split(): the maximal runs of non-whitespace characters
RECURSIVE SplitWords(_, _)
SplitWords(s, cur) ==
    IF Len(s) = 0 THEN (IF Len(cur) = 0 THEN <<>> ELSE <<cur>>)
    ELSE IF Head(s) \in Whitespace
         THEN (IF Len(cur) = 0 THEN <<>> ELSE <<cur>>) \o SplitWords(Tail(s), <<>>)
         ELSE SplitWords(Tail(s), Append(cur, Head(s)))

\* " ".join(words)
RECURSIVE JoinSpace(_)
JoinSpace(words) ==
    IF Len(words) = 0 THEN <<>>
    ELSE IF Len(words) = 1 THEN words[1]
    ELSE words[1] \o <<SP>> \o JoinSpace(Tail(words))

\* str.strip()
RECURSIVE LStrip(_)
LStrip(s) == IF Len(s) > 0 /\ Head(s) \in Whitespace THEN LStrip(Tail(s)) ELSE s
RECURSIVE RStrip(_)
RStrip(s) ==
    IF Len(s) > 0 /\ s[Len(s)] \in Whitespace THEN RStrip(SubSeq(s, 1, Len(s) - 1)) ELSE s
Strip(s) == RStrip(LStrip(s))

\* normalize_name without the whitespace collapse of line 149
normalize_name_nocollapse(name) ==
    IF name.t # "str" THEN <<>>
    ELSE LET s1 == Replace(Replace(name.v, <<"\\">>, DashSep), <<"/">>, DashSep)
             s2 == Replace(Replace(s1, <<SP, EMDASH, SP, SP>>, DashSep),
                           <<SP, SP, EMDASH, SP>>, DashSep)
         IN  s2

normalize_name(name) ==
    IF name.t # "str" THEN <<>>
    ELSE LET s1 == Replace(Replace(name.v, <<"\\">>, DashSep), <<"/">>, DashSep)
             s2 == Replace(Replace(s1, <<SP, EMDASH, SP, SP>>, DashSep),
                           <<SP, SP, EMDASH, SP>>, DashSep)
             s3 == JoinSpace(SplitWords(s2, <<>>))
         IN  Strip(s3)

(***************************************************************************)
(* models.py: the normalized model                                         *)
(***************************************************************************)
\* str(i) for an integer i
RECURSIVE NatStr(_)
NatStr(n) ==
    LET Digits == <<"0", "1", "2", "3", "4", "5", "6", "7", "8", "9">>
    IN  IF n < 10 THEN <<Digits[n + 1]>>
        ELSE NatStr(n \div 10) \o <<Digits[(n % 10) + 1]>>
IntStr(i) == IF i < 0 THEN <<"-">> \o NatStr(-i) ELSE NatStr(i)

Min(a, b) == IF a < b THEN a ELSE b
Max(a, b) == IF a > b THEN a ELSE b

\* max(0, min(127, n))
Clamp127(n) == Max(0, Min(127, n))

NOTE_NAMES ==
    << <<"C">>, <<"C", "#">>, <<"D">>, <<"D", "#">>, <<"E">>, <<"F">>,
       <<"F", "#">>, <<"G">>, <<"G", "#">>, <<"A">>, <<"A", "#">>, <<"B">> >>

\* midi_to_note with octave 0 at note 0
midi_to_note_octave0(n) ==
    LET c == Clamp127(n)
        name == NOTE_NAMES[(c % 12) + 1]
    IN  name \o IntStr(c \div 12)

midi_to_note(n) ==
    LET c == Clamp127(n)
        name == NOTE_NAMES[(c % 12) + 1]
        octave == (c \div 12) - 1
    IN  name \o IntStr(octave)

KeyRange(low, high) == [t |-> "KeyRange", low |-> low, high |-> high]

KeyRange_to_dict(kr) ==
    PDict("low" :> PInt(kr.low) @@ "high" :> PInt(kr.high)
          @@ "lowName" :> PStr(midi_to_note(kr.low))
          @@ "highName" :> PStr(midi_to_note(kr.high)))

Plugin(name, manufacturer, kind, identifier, params) ==
    [name |-> name, manufacturer |-> manufacturer, kind |-> kind,
     identifier |-> identifier, params |-> params]

ChannelStrip(name, kind, midi_channel, key_range, transpose, plugins, notes) ==
    [t |-> "ChannelStrip", name |-> name, kind |-> kind, midi_channel |-> midi_channel,
     key_range |-> key_range, transpose |-> transpose, plugins |-> plugins,
     notes |-> notes]

Patch(name, channel_strips, attributes) ==
    [name |-> name, channel_strips |-> channel_strips, attributes |-> attributes]

Set(name, patches, attributes) ==
    [name |-> name, patches |-> patches, attributes |-> attributes]

Concert(name, sets, attributes) ==
    [name |-> name, sets |-> sets, attributes |-> attributes]

\* the strip kinds, as strings
instrument == <<"i", "n", "s", "t", "r", "u", "m", "e", "n", "t">>
audio == <<"a", "u", "d", "i", "o">>
midi == <<"m", "i", "d", "i">>

(***************************************************************************)
(* parser_mainstage.py: coercion, key ranges, legacy channels              *)
(***************************************************************************)
DigitChars == <<"0", "1", "2", "3", "4", "5", "6", "7", "8", "9">>
IsDigit(c) == \E i \in 1..10 : DigitChars[i] = c
DigitValue(c) == (CHOOSE i \in 1..10 : DigitChars[i] = c) - 1

RECURSIVE DigitsValue(_)
DigitsValue(ds) ==
    IF Len(ds) = 0 THEN 0
    ELSE 10 * DigitsValue(SubSeq(ds, 1, Len(ds) - 1)) + DigitValue(ds[Len(ds)])

\* int(s) for a str s: surrounding whitespace, an optional sign, decimal digits;
\* None stands for the ValueError
ParseInt(s) ==
    LET body == Strip(s)
        signed == Len(body) > 0 /\ body[1] \in {"-", "+"}
        ds == IF signed THEN Tail(body) ELSE body
    IN  IF Len(ds) > 0 /\ \A i \in 1..Len(ds) : IsDigit(ds[i])
        THEN PInt(IF signed /\ body[1] = "-" THEN -DigitsValue(ds) ELSE DigitsValue(ds))
        ELSE None

\* coerce_int: int(v), None when v is None or int(v) raises
coerce_int(v) ==
    CASE v.t = "int" -> v
      [] v.t = "bool" -> PInt(IF v.v THEN 1 ELSE 0)
      [] v.t = "float" -> PInt(v.v)
      [] v.t = "str" -> ParseInt(v.v)
      [] OTHER -> None

\* lines 421-423 without the clamp
ClampedRange_unclamped(low, high) == KeyRange(low, high)

\* lines 113-115 and 421-423: both bounds clamped, each on its own
ClampedRange(low, high) == KeyRange(Clamp127(low), Clamp127(high))

KeyRangeAliases ==
    << <<"keyRangeLow", "keyRangeHigh">>, <<"keyLow", "keyHigh">>,
       <<"noteLow", "noteHigh">>, <<"lowKey", "highKey">> >>

RECURSIVE FirstKeyRange(_, _)
FirstKeyRange(raw_strip, i) ==
    IF i > Len(KeyRangeAliases) THEN None
    ELSE LET low_i == coerce_int(Get(raw_strip, KeyRangeAliases[i][1]))
             high_i == coerce_int(Get(raw_strip, KeyRangeAliases[i][2]))
         IN  IF low_i.t # "none" /\ high_i.t # "none"
             THEN ClampedRange(low_i.v, high_i.v)
             ELSE FirstKeyRange(raw_strip, i + 1)

\* infer_key_range on the dict payload raw_strip
infer_key_range(raw_strip) == FirstKeyRange(raw_strip, 1)

\* the iteration of "for o in objects": the elements of a list; a str, bytes or
\* dict yields no dict element
Elements(objects) == IF objects.t = "list" THEN objects.v ELSE <<>>

Iterable(objects) == objects.t \in {"list", "str", "dict", "bytes"}

IsRangeObject(o) == o.t = "dict" /\ "lowNote" \in DOMAIN o.v /\ "highNote" \in DOMAIN o.v

\* lines 104-108: the first dict with lowNote and highNote, else None
RECURSIVE FindTarget(_)
FindTarget(objects) ==
    IF Len(objects) = 0 THEN None
    ELSE IF IsRangeObject(Head(objects)) THEN Head(objects)
    ELSE FindTarget(Tail(objects))

\* lines 101-118, the body of the try: raised says that it raised
DecodeLayer(layer_blob) ==
    LET Raised == [raised |-> TRUE, key_range |-> None, transpose |-> 0]
    IN  IF ~layer_blob.v.plist THEN Raised
        ELSE LET layer == layer_blob.v.doc
             IN  IF layer.t # "dict" THEN Raised
                 ELSE LET objects == IF "$objects" \in DOMAIN layer.v
                                     THEN layer.v["$objects"]
                                     ELSE PList(<<>>)
                      IN  IF ~Iterable(objects) THEN Raised
                          ELSE LET target == FindTarget(Elements(objects))
                                   low == coerce_int(Get(target.v, "lowNote"))
                                   high == coerce_int(Get(target.v, "highNote"))
                                   tz == coerce_int(Get(target.v, "transpose"))
                               IN  IF target.t = "none"
                                   THEN [raised |-> FALSE, key_range |-> None, transpose |-> 0]
                                   ELSE [raised |-> FALSE,
                                         key_range |-> IF low.t # "none" /\ high.t # "none"
                                                       THEN ClampedRange(low.v, high.v)
                                                       ELSE None,
                                         transpose |-> IF tz.t # "none" THEN tz.v ELSE 0]

\* the ChannelStrip of lines 122-139
LegacyStrip(ch, subpatch_name, key_range, transpose) ==
    LET inst_filename == Get(ch, "Filename")
        plugins == IF inst_filename.t = "str" /\ Len(inst_filename.v) > 0
                   THEN <<Plugin(inst_filename.v, None,
                                 PStr(<<"c", "h", "a", "n", "n", "e", "l", "S", "t", "r", "i", "p">>),
                                 None, EmptyDict)>>
                   ELSE <<>>
        notes0 == "_legacy" :> PBool(TRUE)
        notes == IF Truthy(subpatch_name)
                 THEN notes0 @@ "subpatch" :> PStr(normalize_name(subpatch_name))
                 ELSE notes0
        name == normalize_name(Or(Or(Get(ch, "Channel_name"), Get(ch, "name")),
                                  PStr(<<"S", "t", "r", "i", "p">>)))
    IN  ChannelStrip(name, instrument, None, key_range, transpose, plugins, PDict(notes))

\* parse_legacy_channel with the try of lines 100-120 left out
parse_legacy_channel_notry(ch, subpatch_name) ==
    IF ch.t # "dict" THEN [raised |-> FALSE, value |-> None]
    ELSE LET layer_blob == Get(ch.v, "layer")
             got == IF layer_blob.t = "bytes"
                    THEN DecodeLayer(layer_blob)
                    ELSE [raised |-> FALSE, key_range |-> None, transpose |-> 0]
         IN  IF got.raised THEN [raised |-> TRUE, value |-> None]
             ELSE [raised |-> FALSE,
                   value |-> LegacyStrip(ch.v, subpatch_name, got.key_range, got.transpose)]

\* parse_legacy_channel: raised says that the call raised, value is what it
\* returned
parse_legacy_channel(ch, subpatch_name) ==
    IF ch.t # "dict" THEN [raised |-> FALSE, value |-> None]
    ELSE LET layer_blob == Get(ch.v, "layer")
             got == IF layer_blob.t = "bytes"
                    THEN DecodeLayer(layer_blob)
                    ELSE [raised |-> FALSE, key_range |-> None, transpose |-> 0]
         IN  [raised |-> FALSE,
              value |-> LegacyStrip(ch.v, subpatch_name, got.key_range, got.transpose)]

(***************************************************************************)
(* parser_mainstage.py: the heuristic tree walker                          *)
(*                                                                         *)
(* A function that can raise is modelled by two operators: f_raises(x)     *)
(* says that the call f(x) raises, and f(x) is the value the call returns  *)
(* when it does not raise.                                                 *)
(***************************************************************************)
UpperChars ==
    <<"A", "B", "C", "D", "E", "F", "G", "H", "I", "J", "K", "L", "M",
      "N", "O", "P", "Q", "R", "S", "T", "U", "V", "W", "X", "Y", "Z">>
LowerChars ==
    <<"a", "b", "c", "d", "e", "f", "g", "h", "i", "j", "k", "l", "m",
      "n", "o", "p", "q", "r", "s", "t", "u", "v", "w", "x", "y", "z">>

LowerChar(c) ==
    IF \E i \in 1..26 : UpperChars[i] = c
    THEN LowerChars[CHOOSE i \in 1..26 : UpperChars[i] = c]
    ELSE c

\* str.lower()
Lower(s) == [i \in 1..Len(s) |-> LowerChar(s[i])]

\* sub in s
Contains(s, sub) ==
    \E i \in 0..(Len(s) - Len(sub)) : \A j \in 1..Len(sub) : s[i + j] = sub[j]

\* str(v)
PyStr(v) ==
    CASE v.t = "str" -> v.v
      [] v.t = "int" -> IntStr(v.v)
      [] v.t = "float" -> IntStr(v.v) \o <<".", "0">>
      [] v.t = "bool" -> IF v.v THEN <<"T", "r", "u", "e">> ELSE <<"F", "a", "l", "s", "e">>
      [] v.t = "none" -> <<"N", "o", "n", "e">>
      [] v.t = "list" -> <<"[", "]">>
      [] OTHER -> <<"{", "}">>

\* The keys of a document's maps come in this order: a dict of the model
\* iterates its keys in the order they have in KeyOrder.
KeyOrder ==
    <<"name", "Name", "title", "Title", "class", "_class", "isa", "type",
      "tempo", "engineNode", "hasTempo", "followMIDITempo",
      "channelStrips", "channel_strips", "strips", "mixerStrips", "layers",
      "children", "_children", "patches", "sets", "rootChildren", "PatchList",
      "project", "mixer", "settings", "concert">>

\* list(d.keys())
Keys(d) == LET Has(k) == k \in DOMAIN d IN SelectSeq(KeyOrder, Has)

str_set == <<"s", "e", "t">>
str_patch == <<"p", "a", "t", "c", "h">>
str_Set == <<"S", "e", "t">>
str_Patch == <<"P", "a", "t", "c", "h">>
str_Strip == <<"S", "t", "r", "i", "p">>
str_Default == <<"D", "e", "f", "a", "u", "l", "t">>
str_Plugin == <<"P", "l", "u", "g", "i", "n">>
EmptyStr == PStr(<<>>)

\* node_class on the dict payload node
node_class(node) ==
    PyStr(Or(Or(Or(Or(Get(node, "class"), Get(node, "_class")), Get(node, "isa")),
                Get(node, "type")), EmptyStr))

\* node_name on the dict payload node
node_name(node) ==
    LET v == Or(Or(Or(Get(node, "name"), Get(node, "Name")), Get(node, "title")),
                Get(node, "Title"))
    IN  IF v.t = "str" THEN v ELSE None

\* line 261: node.get("name") or node.get("Name") or ""
ClassifyName(node) == Or(Or(Get(node, "name"), Get(node, "Name")), EmptyStr)

\* classify_node raises when node has no get or the name has no lower
classify_node_raises(node) ==
    \/ node.t # "dict"
    \/ ClassifyName(node.v).t # "str"

classify_node(node) ==
    LET cls == Lower(node_class(node.v))
        name == Lower(ClassifyName(node.v).v)
    IN  IF Contains(cls, str_set) \/ StartsWith(name, str_set \o <<SP>>) THEN "set"
        ELSE IF Contains(cls, str_patch) THEN "patch"
        ELSE IF Or(Get(node.v, "children"), Get(node.v, "_children")).t = "list" THEN "set"
        ELSE "unknown"

IsNumber(v) == v.t \in {"int", "float", "bool"}

\* float(v)
ToFloat(v) == IF v.t = "bool" THEN PFloat(IF v.v THEN 1 ELSE 0) ELSE PFloat(v.v)

\* lines 343-347: the tempo of the first map-valued field that has a numeric one
RECURSIVE FirstNestedTempo(_, _)
FirstNestedTempo(node, keys) ==
    IF Len(keys) = 0 THEN None
    ELSE LET v == node[Head(keys)]
         IN  IF v.t = "dict" /\ IsNumber(Get(v.v, "tempo"))
             THEN ToFloat(Get(v.v, "tempo"))
             ELSE FirstNestedTempo(node, Tail(keys))

\* infer_bpm_from_node on the dict payload node
infer_bpm_from_node(node) ==
    LET eng == Get(node, "engineNode")
    IN  IF IsNumber(Get(node, "tempo")) THEN ToFloat(Get(node, "tempo"))
        ELSE IF eng.t = "dict" /\ IsNumber(Get(eng.v, "tempo"))
        THEN ToFloat(Get(eng.v, "tempo"))
        ELSE FirstNestedTempo(node, Keys(node))

\* infer_bpm_from_patch_dict reporting the tempo whatever the engine's flags
infer_bpm_from_patch_dict_noflags(raw) ==
    LET p == IF raw.t = "dict" THEN Get(raw.v, "patch") ELSE None
        eng == IF p.t = "dict" THEN Get(p.v, "engineNode") ELSE None
    IN  IF eng.t = "dict" /\ IsNumber(Get(eng.v, "tempo"))
        THEN ToFloat(Get(eng.v, "tempo"))
        ELSE None

\* infer_bpm_from_patch_dict on the decoded data.plist raw, of any type: a raw
\* that is no map raises inside the try and gives None
infer_bpm_from_patch_dict(raw) ==
    LET p == IF raw.t = "dict" THEN Get(raw.v, "patch") ELSE None
        eng == IF p.t = "dict" THEN Get(p.v, "engineNode") ELSE None
    IN  IF eng.t # "dict" THEN None
        ELSE IF ~Truthy(Get(eng.v, "hasTempo")) /\ Truthy(Get(eng.v, "followMIDITempo"))
        THEN None
        ELSE IF IsNumber(Get(eng.v, "tempo")) THEN ToFloat(Get(eng.v, "tempo"))
        ELSE None

\* line 396: raw_strip.get("stripType") or raw_strip.get("type") or ""
KindField(raw_strip) == Or(Or(Get(raw_strip, "stripType"), Get(raw_strip, "type")), EmptyStr)

\* infer_strip_kind on the dict payload raw_strip
infer_strip_kind(raw_strip) ==
    LET kind == Lower(KindField(raw_strip).v)
    IN  IF Contains(kind, <<"i", "n", "s", "t">>) THEN instrument
        ELSE IF Contains(kind, audio) THEN audio
        ELSE IF Contains(kind, midi) THEN midi
        ELSE instrument

\* _first_str: the first of keys whose value is a str that is not blank,
\* stripped; None when there is none
RECURSIVE first_str(_, _)
first_str(d, keys) ==
    IF Len(keys) = 0 THEN None
    ELSE LET v == Get(d, Head(keys))
         IN  IF v.t = "str" /\ Len(Strip(v.v)) > 0 THEN PStr(Strip(v.v))
             ELSE first_str(d, Tail(keys))

\* lines 439-445: the Plugin of the dict payload p
PluginOf(p) ==
    Plugin(Or(first_str(p, <<"name", "Name", "title", "Title">>), PStr(str_Plugin)).v,
           first_str(p, <<"manufacturer", "maker">>),
           first_str(p, <<"type", "kind">>),
           first_str(p, <<"identifier", "bundleID", "componentID">>),
           IF Get(p, "params").t = "dict" THEN Get(p, "params").v ELSE EmptyDict)

IsDict(v) == v.t = "dict"

RECURSIVE PluginsOf(_)
PluginsOf(possibles) ==
    IF Len(possibles) = 0 THEN <<>>
    ELSE <<PluginOf(Head(possibles).v)>> \o PluginsOf(Tail(possibles))

\* infer_plugins on the dict payload raw_strip
infer_plugins(raw_strip) ==
    LET Slot(key) == IF Get(raw_strip, key).t = "dict" THEN <<Get(raw_strip, key)>> ELSE <<>>
        inserts == Or(Or(Get(raw_strip, "inserts"), Get(raw_strip, "audioFX")), PList(<<>>))
        possibles == Slot("instrument") \o Slot("instrumentPlugin") \o Slot("softwareInstrument")
                     \o (IF inserts.t = "list" THEN SelectSeq(inserts.v, IsDict) ELSE <<>>)
    IN  PluginsOf(possibles)

\* parse_channel_strip raises when raw_strip has no get or its type has no lower
parse_channel_strip_raises(raw_strip) ==
    \/ raw_strip.t # "dict"
    \/ KindField(raw_strip.v).t # "str"

parse_channel_strip(raw_strip) ==
    LET d == raw_strip.v
        name == normalize_name(Or(Or(Or(Get(d, "name"), Get(d, "stripName")), Get(d, "Name")),
                                  PStr(str_Strip)))
        midi_channel == coerce_int(Or(Get(d, "midiChannel"), Get(d, "midi_channel")))
        transpose == coerce_int(Or(Get(d, "transpose"), PInt(0)))
    IN  ChannelStrip(name, infer_strip_kind(d), midi_channel, infer_key_range(d),
                     IF transpose.t = "none" THEN 0 ELSE transpose.v,
                     infer_plugins(d),
                     PDict("_sourceClass" :> Or(Get(d, "class"), Get(d, "_class"))))

\* lines 355-359: the value of the first strip key that holds a list
RECURSIVE FirstListAt(_, _)
FirstListAt(node, keys) ==
    IF Len(keys) = 0 THEN <<>>
    ELSE IF Get(node, Head(keys)).t = "list" THEN Get(node, Head(keys)).v
    ELSE FirstListAt(node, Tail(keys))

LooksLikeStrips(v) ==
    /\ v.t = "list"
    /\ Len(v.v) > 0
    /\ v.v[1].t = "dict"
    /\ \E x \in {"stripType", "strip", "instrument", "plugins"} : x \in DOMAIN v.v[1].v

\* lines 363-366: the first list-valued field whose first element looks like a strip
RECURSIVE FirstStripLike(_, _)
FirstStripLike(node, keys) ==
    IF Len(keys) = 0 THEN <<>>
    ELSE IF LooksLikeStrips(node[Head(keys)]) THEN node[Head(keys)].v
    ELSE FirstStripLike(node, Tail(keys))

\* lines 353-366: the raw strips of the dict payload node
StripCandidates(node) ==
    LET known == FirstListAt(node, <<"channelStrips", "channel_strips", "strips", "mixerStrips">>)
    IN  IF Len(known) > 0 THEN known ELSE FirstStripLike(node, Keys(node))

extract_channel_strips_raises(node) ==
    \E i \in 1..Len(StripCandidates(node)) : parse_channel_strip_raises(StripCandidates(node)[i])

RECURSIVE ParseStrips(_)
ParseStrips(raw_strips) ==
    IF Len(raw_strips) = 0 THEN <<>>
    ELSE <<parse_channel_strip(Head(raw_strips))>> \o ParseStrips(Tail(raw_strips))

extract_channel_strips(node) == ParseStrips(StripCandidates(node))

extract_patch_raises(node) == extract_channel_strips_raises(node.v)

extract_patch(node) ==
    LET name == normalize_name(Or(node_name(node.v), PStr(str_Patch)))
        attrs0 == "_sourceClass" :> PStr(node_class(node.v))
        bpm == infer_bpm_from_node(node.v)
    IN  Patch(name, extract_channel_strips(node.v),
              PDict(IF bpm.t # "none" THEN attrs0 @@ "bpm" :> bpm ELSE attrs0))

\* the values of the dict payload node at those of keys that hold a list, in turn
ListsAt(node, keys) ==
    LET IsListKey(k) == Get(node, k).t = "list"
        At(k) == Get(node, k).v
        ks == SelectSeq(keys, IsListKey)
    IN  [i \in 1..Len(ks) |-> At(ks[i])]

ChildKeys == <<"children", "_children", "patches">>

RECURSIVE extract_patches_recursive_raises(_)
extract_patches_recursive_raises(node) ==
    \/ classify_node_raises(node)
    \/ classify_node(node) = "patch" /\ extract_patch_raises(node)
    \/ LET below == Concat(ListsAt(node.v, ChildKeys))
       IN  \E i \in 1..Len(below) : extract_patches_recursive_raises(below[i])

RECURSIVE extract_patches_recursive(_)
RECURSIVE ExtractAll(_)
ExtractAll(nodes) ==
    IF Len(nodes) = 0 THEN <<>>
    ELSE extract_patches_recursive(Head(nodes)) \o ExtractAll(Tail(nodes))

extract_patches_recursive(node) ==
    (IF classify_node(node) = "patch" THEN <<extract_patch(node)>> ELSE <<>>)
    \o ExtractAll(Concat(ListsAt(node.v, ChildKeys)))

\* line 282: the children of a set node
SetChildren(node) ==
    Or(Or(Or(Get(node, "children"), Get(node, "_children")), Get(node, "patches")), PList(<<>>))

\* lines 285-288, for one child of a set
SetChildRaises(ch) ==
    \/ classify_node_raises(ch)
    \/ IF classify_node(ch) = "patch" THEN extract_patch_raises(ch)
       ELSE extract_patches_recursive_raises(ch)

SetChildPatches(ch) ==
    IF classify_node(ch) = "patch" THEN <<extract_patch(ch)>> ELSE extract_patches_recursive(ch)

\* iterating a value that is no list raises, at once or at its first element
extract_patches_from_set_raises(node) ==
    \/ SetChildren(node.v).t # "list"
    \/ \E i \in 1..Len(SetChildren(node.v).v) : SetChildRaises(SetChildren(node.v).v[i])

RECURSIVE PatchesOfChildren(_)
PatchesOfChildren(children) ==
    IF Len(children) = 0 THEN <<>>
    ELSE SetChildPatches(Head(children)) \o PatchesOfChildren(Tail(children))

extract_patches_from_set(node) == PatchesOfChildren(SetChildren(node.v).v)

PatchListKeys == <<"children", "_children", "patches", "sets", "rootChildren", "PatchList">>

\* lines 247-249: the first non-empty list under the ranked keys, else None
RECURSIVE FirstPatchList(_, _)
FirstPatchList(raw, keys) ==
    IF Len(keys) = 0 THEN None
    ELSE IF Get(raw, Head(keys)).t = "list" /\ Len(Get(raw, Head(keys)).v) > 0
    THEN Get(raw, Head(keys))
    ELSE FirstPatchList(raw, Tail(keys))

\* find_patchlist_children on the dict payload raw
RECURSIVE find_patchlist_children(_)
RECURSIVE FindBelow(_, _)
FindBelow(raw, keys) ==
    IF Len(keys) = 0 THEN None
    ELSE LET v == raw[Head(keys)]
             ch == IF v.t = "dict" THEN find_patchlist_children(v.v) ELSE None
         IN  IF Truthy(ch) THEN ch ELSE FindBelow(raw, Tail(keys))

find_patchlist_children(raw) ==
    IF FirstPatchList(raw, PatchListKeys).t # "none"
    THEN FirstPatchList(raw, PatchListKeys)
    ELSE FindBelow(raw, Keys(raw))

\* lines 226-240, for one root child
RootChildRaises(child) ==
    \/ classify_node_raises(child)
    \/ CASE classify_node(child) = "set" -> extract_patches_from_set_raises(child)
         [] classify_node(child) = "patch" -> extract_patch_raises(child)
         [] OTHER -> extract_patches_recursive_raises(child)

RootChildSets(child) ==
    CASE classify_node(child) = "set" ->
           <<Set(normalize_name(Or(node_name(child.v), PStr(str_Set))),
                 extract_patches_from_set(child),
                 PDict("_sourceClass" :> PStr(node_class(child.v))))>>
      [] classify_node(child) = "patch" ->
           <<Set(extract_patch(child).name, <<extract_patch(child)>>,
                 PDict("_implicit" :> PBool(TRUE)))>>
      [] OTHER ->
           IF Len(extract_patches_recursive(child)) > 0
           THEN <<Set(Or(node_name(child.v), PStr(str_Set)).v,
                      extract_patches_recursive(child),
                      PDict("_sourceClass" :> PStr(node_class(child.v))))>>
           ELSE <<>>

RECURSIVE SetsOfChildren(_)
SetsOfChildren(children) ==
    IF Len(children) = 0 THEN <<>>
    ELSE RootChildSets(Head(children)) \o SetsOfChildren(Tail(children))

\* extract_sets_and_patches on the loaded document raw (a dict)
extract_sets_and_patches_raises(raw) ==
    LET root_children == find_patchlist_children(raw.v)
    IN  IF ~Truthy(root_children) THEN extract_patches_recursive_raises(raw)
        ELSE \/ \E i \in 1..Len(root_children.v) : RootChildRaises(root_children.v[i])
             \/ /\ Len(SetsOfChildren(root_children.v)) = 0
                /\ extract_patches_recursive_raises(raw)

extract_sets_and_patches(raw) ==
    LET root_children == find_patchlist_children(raw.v)
        Default == <<Set(str_Default, extract_patches_recursive(raw), PDict(EmptyDict))>>
    IN  IF ~Truthy(root_children) THEN Default
        ELSE IF Len(SetsOfChildren(root_children.v)) > 0
        THEN SetsOfChildren(root_children.v)
        ELSE Default

(***************************************************************************)
(* parser_mainstage.py: the bundle resolver                                *)
(*                                                                         *)
(* A path below the bundle is the sequence of its components.  files maps  *)
(* the paths that exist to their kind ("file" or "dir") and size.          *)
(***************************************************************************)
str_ProjectData == <<"P", "r", "o", "j", "e", "c", "t", "D", "a", "t", "a">>
str_plist == <<".", "p", "l", "i", "s", "t">>
str_Alternatives == <<"A", "l", "t", "e", "r", "n", "a", "t", "i", "v", "e", "s">>
str_000 == <<"0", "0", "0">>

\* fnmatch of the name s against the pattern pat, "*" matching any run
RECURSIVE GlobMatch(_, _)
GlobMatch(pat, s) ==
    IF Len(pat) = 0 THEN Len(s) = 0
    ELSE IF Head(pat) = "*"
    THEN GlobMatch(Tail(pat), s) \/ (Len(s) > 0 /\ GlobMatch(pat, Tail(s)))
    ELSE Len(s) > 0 /\ Head(s) = Head(pat) /\ GlobMatch(Tail(pat), Tail(s))

\* the known locations of lines 162-167 with the bundle's root tried first
KnownLocations_rootfirst ==
    << <<str_ProjectData>>,
       <<str_ProjectData \o str_plist>>,
       <<str_Alternatives, str_000, str_ProjectData>>,
       <<str_Alternatives, str_000, str_ProjectData \o str_plist>> >>

\* lines 162-167: the known locations, in priority order
KnownLocations ==
    << <<str_Alternatives, str_000, str_ProjectData>>,
       <<str_Alternatives, str_000, str_ProjectData \o str_plist>>,
       <<str_ProjectData>>,
       <<str_ProjectData \o str_plist>> >>

\* line 173: the name patterns of the recursive searches, in order
SearchPatterns ==
    << str_ProjectData,
       str_ProjectData \o str_plist,
       str_ProjectData,
       str_ProjectData \o str_plist,
       <<"*">> \o str_ProjectData \o <<"*">> >>

BaseName(path) == path[Len(path)]

\* the files that p.rglob(pattern) yields, in whatever order the file system
\* lists them
RglobFiles(files, pattern) ==
    { q \in DOMAIN files : files[q].kind = "file" /\ GlobMatch(pattern, BaseName(q)) }

Found(path) == [raised |-> "", value |-> path]
NotFound == [raised |-> "FileNotFoundError", value |-> <<>>]

\* lines 173-176: the files the first pattern with a file can return
RECURSIVE FirstPatternFiles(_, _)
FirstPatternFiles(files, i) ==
    IF i > Len(SearchPatterns) THEN {}
    ELSE IF RglobFiles(files, SearchPatterns[i]) # {} THEN RglobFiles(files, SearchPatterns[i])
    ELSE FirstPatternFiles(files, i + 1)

\* lines 179-185: the plist files that can come first when sorted by size,
\* largest first
LargestPlists(files) ==
    LET plists == RglobFiles(files, <<"*">> \o str_plist)
    IN  { q \in plists : \A r \in plists : files[r].size <= files[q].size }

\* resolve_projectdata: the outcomes the call can have on a path of the given
\* kind with the entries files below it
resolve_projectdata(kind, files) ==
    IF kind = "bundle"
    THEN LET known == { i \in 1..Len(KnownLocations) : KnownLocations[i] \in DOMAIN files }
         IN  IF known # {}
             THEN { Found(KnownLocations[CHOOSE i \in known : \A j \in known : i <= j]) }
             ELSE IF FirstPatternFiles(files, 1) # {}
             THEN { Found(q) : q \in FirstPatternFiles(files, 1) }
             ELSE IF LargestPlists(files) # {}
             THEN { Found(q) : q \in LargestPlists(files) }
             ELSE { NotFound }
    ELSE IF kind = "file" THEN { Found(<<>>) }
    ELSE { NotFound }

(***************************************************************************)
(* parser_mainstage.py: the legacy folder adapter                          *)
(*                                                                         *)
(* files maps each path below the folder to its entry: a directory, or a   *)
(* file with what load_plist makes of it (readable says whether it         *)
(* decodes, doc is the decoded document).                                  *)
(***************************************************************************)
str_dotpatch == <<".", "p", "a", "t", "c", "h">>
str_data_plist == <<"d", "a", "t", "a", ".", "p", "l", "i", "s", "t">>

\* the characters of the file names, in code point order
CodeOrder == <<SP, ".", "/">> \o UpperChars \o LowerChars
CharRank(c) == CHOOSE i \in 1..Len(CodeOrder) : CodeOrder[i] = c

\* a <= b on strings
RECURSIVE StrLeq(_, _)
StrLeq(a, b) ==
    IF Len(a) = 0 THEN TRUE
    ELSE IF Len(b) = 0 THEN FALSE
    ELSE IF Head(a) = Head(b) THEN StrLeq(Tail(a), Tail(b))
    ELSE CharRank(Head(a)) < CharRank(Head(b))

\* a <= b on paths, which compare as the lists of their components
RECURSIVE PathLeq(_, _)
PathLeq(a, b) ==
    IF Len(a) = 0 THEN TRUE
    ELSE IF Len(b) = 0 THEN FALSE
    ELSE IF Head(a) = Head(b) THEN PathLeq(Tail(a), Tail(b))
    ELSE StrLeq(Head(a), Head(b))

\* sorted(paths)
RECURSIVE SortPaths(_)
SortPaths(paths) ==
    IF paths = {} THEN <<>>
    ELSE LET first == CHOOSE x \in paths : \A y \in paths : PathLeq(x, y)
         IN  <<first>> \o SortPaths(paths \ {first})

EndsWith(s, suffix) ==
    /\ Len(s) >= Len(suffix)
    /\ SubSeq(s, Len(s) - Len(suffix) + 1, Len(s)) = suffix

\* Path.suffix == ".patch": the name ends with .patch after a stem
HasPatchSuffix(name) == EndsWith(name, str_dotpatch) /\ Len(name) > Len(str_dotpatch)

\* Path.stem of a name that has the suffix .patch
PatchStem(name) == SubSeq(name, 1, Len(name) - Len(str_dotpatch))

\* str(path): the components joined by "/"
RECURSIVE PathStr(_)
PathStr(path) ==
    IF Len(path) = 0 THEN <<>>
    ELSE IF Len(path) = 1 THEN path[1]
    ELSE path[1] \o <<"/">> \o PathStr(Tail(path))

IsPrefix(a, b) == Len(a) < Len(b) /\ SubSeq(b, 1, Len(a)) = a

\* load_plist(path) on an existing path: whether it raises
load_plist_raises(files, path) == files[path].kind = "dir" \/ ~files[path].readable

\* the strips of the channels chs, lines 50-53 and 73-76
RECURSIVE StripsOfChannels(_, _)
StripsOfChannels(chs, subpatch_name) ==
    IF Len(chs) = 0 THEN <<>>
    ELSE LET cs == parse_legacy_channel(Head(chs), subpatch_name).value
         IN  (IF cs.t # "none" THEN <<cs>> ELSE <<>>)
             \o StripsOfChannels(Tail(chs), subpatch_name)

\* lines 49-53 and 72-76 on a document that is a map
ChannelsOf(raw, subpatch_name) ==
    IF Get(raw.v, "channels").t = "list"
    THEN StripsOfChannels(Get(raw.v, "channels").v, subpatch_name)
    ELSE <<>>

\* lines 41-55: the tempo and the strips defined directly on the patch
DirectPart(files, patch_dir) ==
    LET direct_plist == Append(patch_dir, str_data_plist)
        Nothing == [bpm |-> None, strips |-> <<>>]
    IN  IF direct_plist \notin DOMAIN files THEN Nothing
        ELSE IF load_plist_raises(files, direct_plist) THEN Nothing
        ELSE LET raw == files[direct_plist].doc
             IN  [bpm |-> infer_bpm_from_patch_dict(raw),
                  strips |-> IF raw.t = "dict" THEN ChannelsOf(raw, None) ELSE <<>>]

\* line 58, sorted: the directories below patch_dir whose name matches *.patch
SubpatchDirs(files, patch_dir) ==
    SortPaths({ q \in DOMAIN files :
                  /\ IsPrefix(patch_dir, q)
                  /\ files[q].kind = "dir"
                  /\ GlobMatch(<<"*">> \o str_dotpatch, BaseName(q)) })

\* lines 67-71: the label of the sub-patch directory sub
SubpatchName(patch_dir, sub) ==
    LET rel_str == PathStr(SubSeq(sub, Len(patch_dir) + 1, Len(sub)))
    IN  normalize_name(PStr(IF EndsWith(rel_str, str_dotpatch)
                            THEN SubSeq(rel_str, 1, Len(rel_str) - Len(str_dotpatch))
                            ELSE rel_str))

\* lines 60-66: the sub-patch directory is skipped
SubSkipped(files, sub) ==
    \/ Append(sub, str_data_plist) \notin DOMAIN files
    \/ load_plist_raises(files, Append(sub, str_data_plist))

\* line 72 raises: the document of the sub-patch is no map
SubRaises(files, sub) ==
    ~SubSkipped(files, sub) /\ files[Append(sub, str_data_plist)].doc.t # "dict"

\* lines 59-76: the strips of the sub-patch directories subs, in order
RECURSIVE SubStrips(_, _, _)
SubStrips(files, patch_dir, subs) ==
    IF Len(subs) = 0 THEN <<>>
    ELSE (IF SubSkipped(files, Head(subs)) THEN <<>>
          ELSE ChannelsOf(files[Append(Head(subs), str_data_plist)].doc,
                          PStr(SubpatchName(patch_dir, Head(subs)))))
         \o SubStrips(files, patch_dir, Tail(subs))

\* lines 35-81: the Patch of the top-level directory patch_dir
LegacyPatch(files, patch_dir) ==
    LET direct == DirectPart(files, patch_dir)
        strips == direct.strips \o SubStrips(files, patch_dir, SubpatchDirs(files, patch_dir))
        attrs0 == "_source" :> PStr(<<"l", "e", "g", "a", "c", "y", "_", "f", "o", "l", "d", "e", "r">>)
        attrs == IF direct.bpm.t # "none" THEN DictSet(attrs0, "bpm", direct.bpm) ELSE attrs0
    IN  Patch(normalize_name(PStr(PatchStem(BaseName(patch_dir)))), strips, PDict(attrs))

\* line 34: the top-level directories with the suffix .patch, sorted
PatchDirs(files) ==
    SortPaths({ q \in DOMAIN files :
                  Len(q) = 1 /\ files[q].kind = "dir" /\ HasPatchSuffix(BaseName(q)) })

extract_from_patch_folder_raises(files) ==
    \E i \in 1..Len(PatchDirs(files)) :
        \E j \in 1..Len(SubpatchDirs(files, PatchDirs(files)[i])) :
            SubRaises(files, SubpatchDirs(files, PatchDirs(files)[i])[j])

extract_from_patch_folder(files) ==
    LET OnePatch(patch_dir) == LegacyPatch(files, patch_dir)
    IN  <<Set(<<"C", "o", "n", "c", "e", "r", "t">>, MapSeq(OnePatch, PatchDirs(files)),
              PDict("_source" :> PStr(<<"l", "e", "g", "a", "c", "y", "_", "f", "o", "l", "d", "e", "r">>)))>>

(***************************************************************************)
(* emit_camelot.py: the session mapper                                     *)
(***************************************************************************)
plugin_source(cs) ==
    IF Len(cs.plugins) > 0
    THEN LET p == cs.plugins[1]
         IN  PDict("type" :> PStr(<<"p", "l", "u", "g", "i", "n">>)
                   @@ "name" :> PStr(p.name)
                   @@ "manufacturer" :> p.manufacturer
                   @@ "kind" :> p.kind
                   @@ "identifier" :> p.identifier)
    ELSE PDict("type" :> PStr(cs.kind) @@ "name" :> PStr(cs.name))

layer_from_strip(cs) ==
    [name |-> cs.name,
     keyRange |-> IF cs.key_range.t # "none" THEN KeyRange_to_dict(cs.key_range) ELSE None,
     transpose |-> cs.transpose,
     source |-> plugin_source(cs),
     midiChannel |-> cs.midi_channel,
     metadata |-> cs.notes]

\* the patch's bpm: p.attributes.get("bpm") when attributes is a dict, else None
PatchBpm(p) == IF p.attributes.t = "dict" THEN Get(p.attributes.v, "bpm") ELSE None

\* the filter of line 65 dropping only the audio strips
IsInstrument_notaudio(cs) == cs.kind # audio

IsInstrument(cs) == cs.kind = instrument

scene_from_patch(patch, include_bpm) ==
    LET meta0 == IF patch.attributes.t = "dict" THEN patch.attributes.v ELSE EmptyDict
        meta == IF ~include_bpm /\ "bpm" \in DOMAIN meta0
                THEN DictWithout(meta0, "bpm")
                ELSE meta0
    IN  [name |-> patch.name,
         layers |-> MapSeq(layer_from_strip, SelectSeq(patch.channel_strips, IsInstrument)),
         metadata |-> meta]

\* lines 26-36 recording the patch's name, not the set's, as _fromSet
FlatSong_patchname(s, p) ==
    LET meta0 == "_fromSet" :> PStr(p.name)
        meta == IF PatchBpm(p).t # "none" THEN DictSet(meta0, "bpm", PatchBpm(p)) ELSE meta0
    IN  [name |-> p.name, scenes |-> <<scene_from_patch(p, TRUE)>>, metadata |-> meta]

\* lines 26-36: one song of one scene for the patch p of the set s
FlatSong(s, p) ==
    LET meta0 == "_fromSet" :> PStr(s.name)
        meta == IF PatchBpm(p).t # "none" THEN DictSet(meta0, "bpm", PatchBpm(p)) ELSE meta0
    IN  [name |-> p.name, scenes |-> <<scene_from_patch(p, TRUE)>>, metadata |-> meta]

\* lines 42-46 without the break: the bpm of the last patch that has one
RECURSIVE LastBpm(_)
LastBpm(patches) ==
    IF Len(patches) = 0 THEN None
    ELSE IF PatchBpm(patches[Len(patches)]).t # "none" THEN PatchBpm(patches[Len(patches)])
    ELSE LastBpm(SubSeq(patches, 1, Len(patches) - 1))

\* lines 42-46: the bpm of the first patch that has one, else None
RECURSIVE FirstBpm(_)
FirstBpm(patches) ==
    IF Len(patches) = 0 THEN None
    ELSE IF PatchBpm(Head(patches)).t # "none" THEN PatchBpm(Head(patches))
    ELSE FirstBpm(Tail(patches))

\* line 40 binding meta to s.attributes itself
MetaOfSet_alias(s) == "attributes"

\* line 40: the object that meta names, a new dict made by dict(s.attributes)
\* or by {}, not the set's own attributes
MetaOfSet(s) == "meta"

\* lines 40-48: the set's attributes and the dict meta after the bpm of the
\* set has been stored through the name meta
GroupedObjects(s) ==
    LET copied == IF s.attributes.t = "dict" THEN s.attributes ELSE PDict(EmptyDict)
        objects == [attributes |-> s.attributes, meta |-> copied]
        bpm == FirstBpm(s.patches)
    IN  IF bpm.t # "none"
        THEN [objects EXCEPT ![MetaOfSet(s)] = PDict(DictSet(@.v, "bpm", bpm))]
        ELSE objects

\* lines 39-53: one song for the set s, one scene for each of its patches
GroupedSong(s) ==
    LET meta == GroupedObjects(s)[MetaOfSet(s)].v
        Scene(p) == scene_from_patch(p, FALSE)
    IN  [name |-> s.name, scenes |-> MapSeq(Scene, s.patches), metadata |-> meta]

\* the set s after lines 39-53
SetAfterGrouping(s) == [s EXCEPT !.attributes = GroupedObjects(s).attributes]

\* the concert c after build_camelot_session(c, flatten, ..): the grouped mode
\* writes through meta (line 48); the flattened mode and scene_from_patch write
\* only to dicts and lists they have just built (lines 28-36, 59-62)
ConcertAfterMapping(c, flatten) ==
    IF flatten THEN c ELSE [c EXCEPT !.sets = MapSeq(SetAfterGrouping, c.sets)]

\* datetime.now().isoformat(), for the clock reading now
isoformat(now) == <<"T">> \o IntStr(now)

\* build_camelot_session stamping the session's name with the clock reading
build_camelot_session_stamped(c, flatten, source_path, now) ==
    LET now_iso == isoformat(now)
        SongsOfSet(s) == LET Song(p) == FlatSong(s, p) IN MapSeq(Song, s.patches)
    IN  [version |-> 1,
         name |-> c.name \o now_iso,
         createdAt |-> now_iso,
         source |-> [type |-> <<"m", "a", "i", "n", "s", "t", "a", "g", "e">>,
                     path |-> source_path,
                     extractedAt |-> now_iso],
         songs |-> IF flatten
                   THEN Concat(MapSeq(SongsOfSet, c.sets))
                   ELSE MapSeq(GroupedSong, c.sets),
         metadata |-> c.attributes]

build_camelot_session(c, flatten, source_path, now) ==
    LET now_iso == isoformat(now)
        SongsOfSet(s) == LET Song(p) == FlatSong(s, p) IN MapSeq(Song, s.patches)
    IN  [version |-> 1,
         name |-> c.name,
         createdAt |-> now_iso,
         source |-> [type |-> <<"m", "a", "i", "n", "s", "t", "a", "g", "e">>,
                     path |-> source_path,
                     extractedAt |-> now_iso],
         songs |-> IF flatten
                   THEN Concat(MapSeq(SongsOfSet, c.sets))
                   ELSE MapSeq(GroupedSong, c.sets),
         metadata |-> c.attributes]

\* the sequences over S of length at most n
RECURSIVE SeqsUpTo(_, _)
SeqsUpTo(S, n) ==
    IF n = 0 THEN {<<>>}
    ELSE LET shorter == SeqsUpTo(S, n - 1)
         IN  shorter \cup {Append(s, c) : s \in shorter, c \in S}

NoName == <<"?">>

IdleNames == name_in = None /\ name_once = NoName /\ name_twice = NoName

NoResult == [raised |-> FALSE, value |-> None]

IdleStrips ==
    /\ low_in = None
    /\ high_in = None
    /\ strip_in = None
    /\ range_out = None
    /\ legacy_out = NoResult

NoWalk == [raised |-> FALSE, value |-> <<>>]
NoClass == [node |-> None, raised |-> FALSE, value |-> ""]

IdleWalker == raw_doc = None /\ walk_out = NoWalk /\ class_out = NoClass

NoFiles == [q \in {} |-> [kind |-> "file", size |-> 0]]
Unresolved == [raised |-> "", value |-> <<>>]

IdleResolver == input_kind = "none" /\ fs = NoFiles /\ resolved = Unresolved

NoNote == <<"?">>
IdleNotes == note_in = 0 /\ note_out = NoNote

NoBpm == [done |-> FALSE, value |-> None]
IdleTempo == raw_patch = None /\ bpm_legacy = NoBpm /\ bpm_generic = NoBpm

NoFolder == [q \in {} |-> None]
IdleFolder == folder = NoFolder /\ legacy_sets = NoWalk

(***************************************************************************)
(* Specification SpecMapper: build_camelot_session on a Concert            *)
(***************************************************************************)
NoPlugins == <<>>
NoNotes == PDict(EmptyDict)

Synth == Plugin(<<"E", "S", "2">>, PStr(<<"A", "p", "p", "l", "e">>), PStr(<<"A", "U">>),
                None, EmptyDict)

\* channel strips of every kind, with and without key range and plugin
StripPiano == ChannelStrip(<<"P", "n", "o">>, instrument, PInt(1), KeyRange(0, 60), 0,
                           NoPlugins, NoNotes)
StripPad == ChannelStrip(<<"P", "a", "d">>, instrument, None, None, -12, <<Synth>>,
                         PDict("_sourceClass" :> None))
StripBass == ChannelStrip(<<"B", "s">>, instrument, None, KeyRange(0, 0), 12,
                          NoPlugins, NoNotes)
StripAudio == ChannelStrip(<<"M", "i", "c">>, audio, None, KeyRange(10, 20), 5,
                           NoPlugins, NoNotes)
StripMidi == ChannelStrip(<<"C", "l", "k">>, midi, PInt(10), None, 0, NoPlugins, NoNotes)

SourceClassPatch == "_sourceClass" :> PStr(<<"P", "a", "t", "c", "h">>)

\* patches: without bpm, with a bpm, with another bpm
PatchPool ==
    { Patch(<<"A">>, <<StripPiano, StripAudio, StripPad>>, PDict(SourceClassPatch)),
      Patch(<<"B">>, <<StripMidi, StripBass, StripAudio, StripPiano>>,
            PDict(SourceClassPatch @@ "bpm" :> PFloat(120))),
      Patch(<<"C">>, <<StripAudio>>, PDict(SourceClassPatch @@ "bpm" :> PFloat(90))) }

\* the sets of a concert, by position
SetNames == << <<"S", "1">>, <<"S", "2">> >>
SetAttributes ==
    << PDict("_sourceClass" :> PStr(<<"S", "e", "t">>)), PDict("_implicit" :> PBool(TRUE)) >>

\* the patch sequences of a set
PatchSeqs == UNION { [1..k -> PatchPool] : k \in 0..MaxPatches }

\* the sets of a concert whose i-th set holds the patches ps[i]
SetsOf(n, ps) == [i \in 1..n |-> Set(SetNames[i], ps[i], SetAttributes[i])]

SourcePath == <<"/", "r", "i", "g">>

ConcertOf(sets) == Concert(<<"L", "i", "v", "e">>, sets, PDict("source" :> PStr(SourcePath)))

NoSession == [version |-> 0]
NoConcert == Concert(<<>>, <<>>, PDict(EmptyDict))

IdleMapper ==
    /\ concert = NoConcert
    /\ flatten_sets = FALSE
    /\ session = NoSession
    /\ session_again = NoSession

InitMapper ==
    /\ pc = "start"
    /\ \E n \in 0..Len(SetNames) :
         \E ps \in [1..n -> PatchSeqs] : concert = ConcertOf(SetsOf(n, ps))
    /\ flatten_sets = FALSE
    /\ session = NoSession
    /\ session_again = NoSession
    /\ IdleNames
    /\ IdleStrips
    /\ IdleWalker
    /\ IdleResolver
    /\ IdleNotes
    /\ IdleTempo
    /\ IdleFolder

BuildSession ==
    /\ pc = "start"
    /\ \E flatten \in BOOLEAN, now \in 1..MaxClock :
         /\ flatten_sets' = flatten
         /\ session' = build_camelot_session(concert, flatten, SourcePath, now)
         /\ concert' = ConcertAfterMapping(concert, flatten)
    /\ pc' = "mapped"
    /\ UNCHANGED <<session_again, namesVars, stripVars, walkerVars, resolverVars,
                 notesVars, tempoVars, folderVars>>

NextMapper == BuildSession

SpecMapper == InitMapper /\ [][NextMapper]_vars

\* the places <<i, j>> of the patches of the concert
PatchPlaces ==
    UNION { { <<i, j>> : j \in 1..Len(concert.sets[i].patches) } : i \in 1..Len(concert.sets) }

PatchAt(pl) == concert.sets[pl[1]].patches[pl[2]]

\* the number of patches in the sets before set i
RECURSIVE PatchesBefore(_)
PatchesBefore(i) ==
    IF i <= 1 THEN 0 ELSE PatchesBefore(i - 1) + Len(concert.sets[i - 1].patches)

\* the song that holds the scene of the patch at pl, and the scene's place in it
SongOf(pl) == IF flatten_sets THEN PatchesBefore(pl[1]) + pl[2] ELSE pl[1]
SceneOf(pl) == IF flatten_sets THEN 1 ELSE pl[2]

HasScene(pl) ==
    /\ SongOf(pl) \in 1..Len(session.songs)
    /\ SceneOf(pl) \in 1..Len(session.songs[SongOf(pl)].scenes)

SceneAt(pl) == session.songs[SongOf(pl)].scenes[SceneOf(pl)]

InstrumentIdx(strips) == { i \in 1..Len(strips) : strips[i].kind = instrument }

\* the place in strips of its k-th instrument strip
NthInstrument(strips, k) ==
    CHOOSE i \in InstrumentIdx(strips) :
        Cardinality({ j \in InstrumentIdx(strips) : j <= i }) = k

LayerIsStrip(layer, cs) ==
    /\ layer.name = cs.name
    /\ layer.transpose = cs.transpose
    /\ IF cs.key_range.t = "none"
       THEN layer.keyRange.t = "none"
       ELSE /\ layer.keyRange.t = "dict"
            /\ layer.keyRange.v["low"] = PInt(cs.key_range.low)
            /\ layer.keyRange.v["high"] = PInt(cs.key_range.high)

LayersAreInstruments(patch, scene) ==
    LET strips == patch.channel_strips
    IN  /\ Len(scene.layers) = Cardinality(InstrumentIdx(strips))
        /\ \A k \in 1..Len(scene.layers) :
             LayerIsStrip(scene.layers[k], strips[NthInstrument(strips, k)])
        /\ \A k \in 1..Len(scene.layers), i \in 1..Len(strips) :
             strips[i].kind \in {audio, midi} => scene.layers[k].name # strips[i].name

\* C1: in either mode every patch has its scene, and the scene's layers are, in
\* source order, exactly the patch's instrument strips: same name and transpose,
\* the strip's key range low/high (null when it has none); an audio or midi
\* strip is never a layer.
C1_LayersAreInstrumentStrips ==
    pc = "mapped" =>
        \A pl \in PatchPlaces : HasScene(pl) /\ LayersAreInstruments(PatchAt(pl), SceneAt(pl))

\* a patch with strips midi, instrument, audio, instrument has been mapped, in
\* flattened mode, to a scene of two layers
C1_Witness ==
    /\ pc = "mapped"
    /\ flatten_sets
    /\ \E pl \in PatchPlaces :
         /\ PatchAt(pl).name = <<"B">>
         /\ HasScene(pl)
         /\ Len(SceneAt(pl).layers) = 2
         /\ SceneAt(pl).layers[1].name = StripBass.name
         /\ SceneAt(pl).layers[2].keyRange.t = "dict"

\* the places in patches of the patches that declare a non-null bpm
Declaring(patches) ==
    { j \in 1..Len(patches) :
        /\ patches[j].attributes.t = "dict"
        /\ "bpm" \in DOMAIN patches[j].attributes.v
        /\ patches[j].attributes.v["bpm"].t # "none" }

Least(S) == CHOOSE x \in S : \A y \in S : x <= y

\* C2: in grouped mode the song of a set carries the bpm of the first patch, in
\* set order, that declares a non-null bpm, and no scene of the song has a bpm.
C2_GroupedTempo ==
    (pc = "mapped" /\ ~flatten_sets) =>
        /\ Len(session.songs) = Len(concert.sets)
        /\ \A i \in 1..Len(concert.sets) :
             LET patches == concert.sets[i].patches
                 song == session.songs[i]
             IN  /\ Declaring(patches) # {} =>
                        /\ "bpm" \in DOMAIN song.metadata
                        /\ song.metadata["bpm"] =
                               patches[Least(Declaring(patches))].attributes.v["bpm"]
                 /\ Len(song.scenes) = Len(patches)
                 /\ \A j \in 1..Len(song.scenes) : "bpm" \notin DOMAIN song.scenes[j].metadata

\* a set of three patches, the second the first to declare a tempo (120), the
\* third declaring 90, has been mapped in grouped mode to a song of bpm 120
C2_Witness ==
    /\ pc = "mapped"
    /\ ~flatten_sets
    /\ Len(concert.sets) >= 1
    /\ Len(concert.sets[1].patches) = 3
    /\ Declaring(concert.sets[1].patches) = {2, 3}
    /\ session.songs[1].metadata["bpm"] = PFloat(120)

TotalPatches == PatchesBefore(Len(concert.sets) + 1)

C16_ModelUnchanged == [][concert' = concert]_vars

\* a set has been mapped to a song that received the song-level bpm, which
\* the set's own attributes do not hold
C16_Witness ==
    /\ pc = "mapped"
    /\ ~flatten_sets
    /\ \E i \in 1..Len(concert.sets) :
         /\ "bpm" \in DOMAIN session.songs[i].metadata
         /\ "bpm" \notin DOMAIN concert.sets[i].attributes.v
         /\ \E j \in 1..Len(concert.sets[i].patches) :
              "bpm" \in DOMAIN concert.sets[i].patches[j].attributes.v

(***************************************************************************)
(* Specification SpecStrips: infer_key_range and parse_legacy_channel on   *)
(* raw low and high notes                                                  *)
(***************************************************************************)
RawInts == ((-KeyMargin)..KeyMargin) \cup {60} \cup ((127 - KeyMargin)..(127 + KeyMargin))

RawNotes ==
    { PInt(i) : i \in RawInts } \cup
    { None, PStr(<<"6", "4">>), PStr(<<"x">>), PFloat(300) }

\* a generic strip that holds low and high under the i-th alias pair; with
\* partial, an earlier pair that lacks its high note
\* a document holds no null: a raw note of None is a field left out
Field(v) == IF v.t = "none" THEN Absent ELSE v

GenericStrip(i, partial, low, high) ==
    LET d == KeyRangeAliases[i][1] :> Field(low) @@ KeyRangeAliases[i][2] :> Field(high)
    IN  DictOf(IF partial /\ i > 1 THEN d @@ KeyRangeAliases[1][1] :> PInt(9) ELSE d)

RangeObject(low, high) ==
    DictOf("lowNote" :> Field(low) @@ "highNote" :> Field(high) @@ "transpose" :> PInt(-12))

NullObject == PStr(<<"$", "n", "u", "l", "l">>)

Archive(doc) == PBytes(FALSE, TRUE, doc)

\* the layer values of a legacy_out channel, by shape
LayerShapes(low, high) ==
    [ notbytes |-> PStr(<<"x">>),
      empty |-> PBytes(TRUE, FALSE, None),
      malformed |-> PBytes(FALSE, FALSE, None),
      listroot |-> Archive(PList(<<RangeObject(low, high)>>)),
      noobjects |-> Archive(PDict("$top" :> RangeObject(low, high))),
      notiterable |-> Archive(PDict("$objects" :> PInt(5))),
      nomatch |-> Archive(PDict("$objects" :>
                      PList(<<NullObject, DictOf("lowNote" :> Field(low)),
                              DictOf("highNote" :> Field(high))>>))),
      match |-> Archive(PDict("$objects" :>
                    PList(<<NullObject, PDict("lowNote" :> PInt(1)), RangeObject(low, high),
                            RangeObject(PInt(1), PInt(2))>>))) ]

ChannelName == "name" :> PStr(<<"B", "/", "1">>)

InitStrips ==
    /\ pc = "start"
    /\ low_in \in RawNotes
    /\ high_in \in RawNotes
    /\ strip_in = None
    /\ range_out = None
    /\ legacy_out = NoResult
    /\ IdleNames
    /\ IdleMapper
    /\ IdleWalker
    /\ IdleResolver
    /\ IdleNotes
    /\ IdleTempo
    /\ IdleFolder

InferKeyRange ==
    /\ pc = "start"
    /\ \E i \in 1..Len(KeyRangeAliases), partial \in BOOLEAN :
         /\ strip_in' = GenericStrip(i, partial, low_in, high_in)
         /\ range_out' = infer_key_range(strip_in'.v)
    /\ pc' = "generic"
    /\ UNCHANGED <<low_in, high_in, legacy_out, namesVars, mapperVars, walkerVars, resolverVars,
                 notesVars, tempoVars, folderVars>>

ParseLegacyChannel ==
    /\ pc = "start"
    /\ \/ \E shape \in DOMAIN LayerShapes(low_in, high_in) :
            strip_in' = PDict(ChannelName @@ "layer" :> LayerShapes(low_in, high_in)[shape])
       \/ strip_in' = PDict(ChannelName)
       \/ strip_in' = PInt(5)
    /\ legacy_out' = parse_legacy_channel(strip_in', None)
    /\ pc' = "legacy"
    /\ UNCHANGED <<low_in, high_in, range_out, namesVars, mapperVars, walkerVars, resolverVars,
                 notesVars, tempoVars, folderVars>>

NextStrips == InferKeyRange \/ ParseLegacyChannel

SpecStrips == InitStrips /\ [][NextStrips]_vars

\* n clamped into 0..127
Clamped(n) == IF n < 0 THEN 0 ELSE IF n > 127 THEN 127 ELSE n

\* the archive of the channel ch decodes to a flat object array that holds a
\* dict with lowNote and highNote
HasRangeObject(ch) ==
    /\ ch.t = "dict"
    /\ "layer" \in DOMAIN ch.v
    /\ ch.v["layer"].t = "bytes"
    /\ ch.v["layer"].v.plist
    /\ LET doc == ch.v["layer"].v.doc
       IN  /\ doc.t = "dict"
           /\ "$objects" \in DOMAIN doc.v
           /\ doc.v["$objects"].t = "list"
           /\ \E i \in 1..Len(doc.v["$objects"].v) :
                LET o == doc.v["$objects"].v[i]
                IN  o.t = "dict" /\ {"lowNote", "highNote"} \subseteq DOMAIN o.v

\* the KeyRange the step has constructed, None if it constructed none
Constructed ==
    IF pc = "generic" THEN range_out
    ELSE IF pc = "legacy" /\ legacy_out.value.t = "ChannelStrip" THEN legacy_out.value.key_range
    ELSE None

\* C4: a KeyRange constructed by infer_key_range or by the archive path of
\* parse_legacy_channel has 0 <= low <= 127 and 0 <= high <= 127; for integer
\* raw notes, whatever their size and order, one is constructed, its low and
\* high the raw notes clamped each on its own.
C4_KeyRangeClamped ==
    /\ Constructed.t = "KeyRange" =>
         /\ 0 <= Constructed.low /\ Constructed.low <= 127
         /\ 0 <= Constructed.high /\ Constructed.high <= 127
    /\ (/\ low_in.t = "int" /\ high_in.t = "int"
        /\ pc = "generic" \/ (pc = "legacy" /\ HasRangeObject(strip_in))) =>
         /\ Constructed.t = "KeyRange"
         /\ Constructed.low = Clamped(low_in.v)
         /\ Constructed.high = Clamped(high_in.v)

\* an archived layer with low note 129 and high note -2 has given the key
\* range 127..0
C4_Witness ==
    /\ pc = "legacy"
    /\ low_in = PInt(127 + KeyMargin)
    /\ high_in = PInt(-KeyMargin)
    /\ HasRangeObject(strip_in)
    /\ ~legacy_out.raised
    /\ legacy_out.value.key_range = KeyRange(127, 0)

\* C7: for a channel whose archive does not decode, has no flat object array or
\* holds no object with both lowNote and highNote, parse_legacy_channel raises
\* nothing and returns a ChannelStrip with range_out null and transpose 0.
C7_LegacyBestEffort ==
    (/\ pc = "legacy"
     /\ strip_in.t = "dict"
     /\ "layer" \in DOMAIN strip_in.v
     /\ strip_in.v["layer"].t = "bytes"
     /\ ~HasRangeObject(strip_in)) =>
        /\ ~legacy_out.raised
        /\ legacy_out.value.t = "ChannelStrip"
        /\ legacy_out.value.key_range = None
        /\ legacy_out.value.transpose = 0

\* a channel whose layer payload is malformed has been parsed to a strip
C7_Witness ==
    /\ pc = "legacy"
    /\ strip_in.t = "dict"
    /\ "layer" \in DOMAIN strip_in.v
    /\ strip_in.v["layer"] = PBytes(FALSE, FALSE, None)
    /\ ~legacy_out.raised
    /\ legacy_out.value.t = "ChannelStrip"
    /\ legacy_out.value.name = <<"B", SP, EMDASH, SP, "1">>
    /\ legacy_out.value.key_range = None
    /\ legacy_out.value.transpose = 0

(***************************************************************************)
(* Specification SpecWalker: extract_sets_and_patches on a loaded document *)
(***************************************************************************)
ClassValues == { Absent, PStr(str_Patch), PStr(<<"M", "A", "S", "e", "t">>) }

Lead == PStr(<<"L", "e", "a", "d">>)

\* a plain name, a name that begins with "Set ", a blank name, a name that is
\* no string
NameValues == { Absent, Lead, PStr(<<"S", "e", "t", SP, "1">>), PStr(<<SP, SP>>), PInt(5) }

PatchLeaf == DictOf("class" :> PStr(str_Patch) @@ "name" :> PStr(<<"K", "/", "1">>))

\* children-like values: a list, empty or not, a list with an element that is
\* no map, and a value that is no list
ChildrenValues == { PList(<<>>), PList(<<PatchLeaf>>), PList(<<PInt(3)>>), PInt(5) }

GoodStrip ==
    DictOf("name" :> PStr(<<"P", "n", "o">>) @@ "stripType" :> PStr(<<"I", "n", "s", "t">>)
           @@ "keyLow" :> PInt(-1) @@ "keyHigh" :> PInt(60) @@ "transpose" :> PStr(<<"x">>))
AudioStrip == DictOf("type" :> PStr(audio) @@ "midiChannel" :> PStr(<<"2">>))

\* channel-strip sequences: well-formed, with an element that is no map, with
\* a strip whose type is no string
StripsValues ==
    { PList(<<GoodStrip, AudioStrip>>), PList(<<PInt(7)>>),
      PList(<<DictOf("stripType" :> PInt(5))>>) }

FollowingEngine ==
    DictOf("tempo" :> PInt(90) @@ "hasTempo" :> PBool(FALSE) @@ "followMIDITempo" :> PBool(TRUE))

\* the nodes of a document's patch list
NodePool ==
    { DictOf("class" :> cls @@ "name" :> name) : cls \in ClassValues, name \in NameValues }
    \cup { DictOf("class" :> cls @@ "name" :> Lead @@ "children" :> ch) :
             cls \in { Absent, PStr(str_Patch) }, ch \in ChildrenValues }
    \cup { DictOf("type" :> PStr(<<"M", "A", "S", "e", "t">>) @@ "title" :> Lead
                  @@ "_children" :> PList(<<PatchLeaf, DictOf("name" :> Lead)>>)) }
    \cup { DictOf("class" :> PStr(str_Patch) @@ "name" :> Lead @@ "channelStrips" :> st) :
             st \in StripsValues }
    \cup { DictOf("class" :> PStr(str_Patch) @@ "tempo" :> PInt(120)),
           DictOf("class" :> PStr(str_Patch) @@ "engineNode" :> FollowingEngine),
           PInt(3) }

ConcertTitle == "name" :> PStr(<<"L", "i", "v", "e">>)

InitWalker ==
    /\ pc = "start"
    /\ \E n \in 0..MaxChildren :
         \E children \in [1..n -> NodePool] :
             raw_doc = PDict(ConcertTitle @@ "children" :> PList(children))
    /\ walk_out = NoWalk
    /\ class_out = NoClass
    /\ IdleNames
    /\ IdleMapper
    /\ IdleStrips
    /\ IdleResolver
    /\ IdleNotes
    /\ IdleTempo
    /\ IdleFolder

ExtractSetsAndPatches ==
    /\ pc = "start"
    /\ walk_out' = IF extract_sets_and_patches_raises(raw_doc)
                   THEN [raised |-> TRUE, value |-> <<>>]
                   ELSE [raised |-> FALSE, value |-> extract_sets_and_patches(raw_doc)]
    /\ pc' = "walked"
    /\ UNCHANGED <<raw_doc, class_out, namesVars, mapperVars, stripVars, resolverVars,
                 notesVars, tempoVars, folderVars>>

ClassifyNode ==
    /\ pc = "start"
    /\ \E i \in 1..Len(raw_doc.v["children"].v) :
         LET child == raw_doc.v["children"].v[i]
         IN  class_out' = IF classify_node_raises(child)
                          THEN [node |-> child, raised |-> TRUE, value |-> ""]
                          ELSE [node |-> child, raised |-> FALSE, value |-> classify_node(child)]
    /\ pc' = "classified"
    /\ UNCHANGED <<raw_doc, walk_out, namesVars, mapperVars, stripVars, resolverVars,
                 notesVars, tempoVars, folderVars>>

NextWalker == ExtractSetsAndPatches \/ ClassifyNode

SpecWalker == InitWalker /\ [][NextWalker]_vars

\* C6: the walker never raises on a loaded document: a field, an element of a
\* children or channel-strip sequence, or a sub-structure that is absent or of
\* the wrong type is treated as absent.
C6_WalkerNeverRaises == pc = "walked" => ~walk_out.raised

\* the declared class/type string of the classified node contains "patch"
\* and not "set", whatever the case
DeclaredPatch(node) ==
    /\ node.t = "dict"
    /\ Contains(Lower(node_class(node.v)), str_patch)
    /\ ~Contains(Lower(node_class(node.v)), str_set)

\* C9: a node whose declared class/type string contains "patch" and not "set"
\* is classified as patch, even when its name begins with "Set " or it has a
\* children-like sequence.
C9_ClassTakesPrecedence ==
    (pc = "classified" /\ ~class_out.raised /\ DeclaredPatch(class_out.node)) =>
        class_out.value = "patch"

\* the patches the walker has returned
WalkedPatches ==
    UNION { { walk_out.value[i].patches[j] : j \in 1..Len(walk_out.value[i].patches) } :
              i \in 1..Len(walk_out.value) }

\* C10: every Patch the walker produces has a name that is not empty and that
\* normalize_name leaves unchanged, whatever the source name.
C10_PatchNamesNormalized ==
    (pc = "walked" /\ ~walk_out.raised) =>
        \A p \in WalkedPatches : Len(p.name) > 0 /\ normalize_name(PStr(p.name)) = p.name

(***************************************************************************)
(* Specification SpecResolver: resolve_projectdata on a bundle directory   *)
(***************************************************************************)
DirA == <<"a">>
DirB == <<"b">>

AltProjectData == <<str_Alternatives, str_000, str_ProjectData>>
AltProjectDataPlist == <<str_Alternatives, str_000, str_ProjectData \o str_plist>>
RootProjectData == <<str_ProjectData>>
RootProjectDataPlist == <<str_ProjectData \o str_plist>>
DeepProjectData == <<DirA, DirB, str_ProjectData>>
DeepProjectDataPlist == <<DirA, DirB, str_ProjectData \o str_plist>>
OtherProjectData == <<<<"c">>, str_ProjectData>>
DeepBackup == <<DirA, <<"M", "y">> \o str_ProjectData \o <<".", "b", "a", "k">>>>
DeepPlist == <<DirA, <<"x">> \o str_plist>>
RootPlist == <<<<"y">> \o str_plist>>
Notes == <<DirA, <<"n", "o", "t", "e", "s", ".", "t", "x", "t">>>>

\* the paths that are a file or are not there
FilePaths == { AltProjectData, AltProjectDataPlist, RootProjectDataPlist,
               DeepProjectDataPlist, OtherProjectData, DeepBackup }
\* the paths that are a file, a directory, or are not there
FileOrDirPaths == { RootProjectData, DeepProjectData }
\* the plist files of varying size
SizedPaths == { DeepPlist, RootPlist }

Entry(kind, size) == [kind |-> kind, size |-> size]

\* the entries of a bundle, given what each path is
BundleFiles(present, kinds, sizes) ==
    [ q \in present \cup { x \in FileOrDirPaths : kinds[x] # "absent" }
            \cup { x \in SizedPaths : sizes[x] > 0 } \cup { Notes } |->
        IF q \in present THEN Entry("file", 1)
        ELSE IF q \in FileOrDirPaths THEN Entry(kinds[q], 1)
        ELSE IF q \in SizedPaths THEN Entry("file", sizes[q])
        ELSE Entry("file", MaxSize + 1) ]

InitResolver ==
    /\ pc = "start"
    /\ \/ /\ input_kind = "bundle"
          /\ \E present \in SUBSET FilePaths :
               \E kinds \in [FileOrDirPaths -> {"absent", "file", "dir"}] :
                 \E sizes \in [SizedPaths -> 0..MaxSize] :
                   fs = BundleFiles(present, kinds, sizes)
       \/ /\ input_kind \in {"file", "dir", "missing"}
          /\ fs = NoFiles
    /\ resolved = Unresolved
    /\ IdleNames
    /\ IdleMapper
    /\ IdleStrips
    /\ IdleWalker
    /\ IdleNotes
    /\ IdleTempo
    /\ IdleFolder

ResolveProjectdata ==
    /\ pc = "start"
    /\ resolved' \in resolve_projectdata(input_kind, fs)
    /\ pc' = "resolved"
    /\ UNCHANGED <<input_kind, fs, namesVars, mapperVars, stripVars, walkerVars,
                 notesVars, tempoVars, folderVars>>

NextResolver == ResolveProjectdata

SpecResolver == InitResolver /\ [][NextResolver]_vars

IsFile(q) == q \in DOMAIN fs /\ fs[q].kind = "file"
NamesProjectData(q) == Contains(BaseName(q), str_ProjectData)
IsPlist(q) ==
    /\ Len(BaseName(q)) >= Len(str_plist)
    /\ SubSeq(BaseName(q), Len(BaseName(q)) - Len(str_plist) + 1, Len(BaseName(q))) = str_plist

\* C8: for a bundle directory the result is that of the first strategy that
\* succeeds: (1) the first existing known location, in the order
\* Alternatives/000/ProjectData, Alternatives/000/ProjectData.plist,
\* ProjectData, ProjectData.plist; (2) a file at any depth whose name matches
\* a ProjectData pattern; (3) a largest .plist file; (4) the not-found error.
C8_ResolutionOrder ==
    (pc = "resolved" /\ input_kind = "bundle") =>
        IF AltProjectData \in DOMAIN fs THEN resolved = Found(AltProjectData)
        ELSE IF AltProjectDataPlist \in DOMAIN fs THEN resolved = Found(AltProjectDataPlist)
        ELSE IF RootProjectData \in DOMAIN fs THEN resolved = Found(RootProjectData)
        ELSE IF RootProjectDataPlist \in DOMAIN fs THEN resolved = Found(RootProjectDataPlist)
        ELSE IF \E q \in DOMAIN fs : IsFile(q) /\ NamesProjectData(q)
        THEN /\ resolved.raised = ""
             /\ IsFile(resolved.value)
             /\ NamesProjectData(resolved.value)
        ELSE IF \E q \in DOMAIN fs : IsFile(q) /\ IsPlist(q)
        THEN /\ resolved.raised = ""
             /\ IsFile(resolved.value)
             /\ IsPlist(resolved.value)
             /\ \A q \in DOMAIN fs : (IsFile(q) /\ IsPlist(q)) => fs[q].size <= fs[resolved.value].size
        ELSE resolved = NotFound

\* a bundle whose only ProjectData is the file a/b/ProjectData, beside a
\* larger plist, has resolved to that file
C8_Witness ==
    /\ pc = "resolved"
    /\ input_kind = "bundle"
    /\ DOMAIN fs = { DeepProjectData, RootPlist, Notes }
    /\ fs[DeepProjectData].kind = "file"
    /\ resolved = Found(DeepProjectData)

(***************************************************************************)
(* Specification SpecNames: normalize_name applied once and twice          *)
(***************************************************************************)
NameChars == {"a", SP, TAB, "/", "\\", EMDASH}

NameInputs == {PStr(s) : s \in SeqsUpTo(NameChars, MaxNameLen)} \cup {None, PInt(5)}

InitNames ==
    /\ pc = "start"
    /\ name_in \in NameInputs
    /\ name_once = NoName
    /\ name_twice = NoName
    /\ IdleMapper
    /\ IdleStrips
    /\ IdleWalker
    /\ IdleResolver
    /\ IdleNotes
    /\ IdleTempo
    /\ IdleFolder

Normalize ==
    /\ pc = "start"
    /\ name_once' = normalize_name(name_in)
    /\ pc' = "once"
    /\ UNCHANGED <<name_in, name_twice, mapperVars, stripVars, walkerVars, resolverVars,
                 notesVars, tempoVars, folderVars>>

NormalizeAgain ==
    /\ pc = "once"
    /\ name_twice' = normalize_name(PStr(name_once))
    /\ pc' = "twice"
    /\ UNCHANGED <<name_in, name_once, mapperVars, stripVars, walkerVars, resolverVars,
                 notesVars, tempoVars, folderVars>>

NextNames == Normalize \/ NormalizeAgain

SpecNames == InitNames /\ [][NextNames]_vars

\* C5: normalize_name is idempotent: normalizing the result of normalize_name
\* returns it unchanged, for every input string.
C5_Idempotent == pc = "twice" => name_twice = name_once

\* a name with a path separator, repeated whitespace and a leading separator
\* has been normalized twice
C5_Witness ==
    /\ pc = "twice"
    /\ name_in = PStr(<<"/", SP, SP, "a">>)
    /\ name_once = <<EMDASH, SP, "a">>

(***************************************************************************)
(* Specification SpecNotes: midi_to_note on the integers around 0..127     *)
(***************************************************************************)
InitNotes ==
    /\ pc = "start"
    /\ note_in \in (0 - NoteMargin)..(127 + NoteMargin)
    /\ note_out = NoNote
    /\ IdleNames
    /\ IdleMapper
    /\ IdleStrips
    /\ IdleWalker
    /\ IdleResolver
    /\ IdleTempo
    /\ IdleFolder

MidiToNote ==
    /\ pc = "start"
    /\ note_out' = midi_to_note(note_in)
    /\ pc' = "noted"
    /\ UNCHANGED <<note_in, namesVars, mapperVars, stripVars, walkerVars, resolverVars,
                   tempoVars, folderVars>>

NextNotes == MidiToNote

SpecNotes == InitNotes /\ [][NextNotes]_vars

\* C11: for n in 0..127 midi_to_note(n) is NOTE_NAMES[n mod 12] followed by
\* the octave (n div 12) - 1, so 60 is C4, 69 is A4, 0 is C-1 and 127 is G9;
\* an integer outside 0..127 is clamped first, so it maps as 0 or as 127 does.
C11_NoteNames ==
    pc = "noted" =>
        /\ note_in \in 0..127 =>
             note_out = NOTE_NAMES[(note_in % 12) + 1] \o IntStr((note_in \div 12) - 1)
        /\ note_in = 60 => note_out = <<"C", "4">>
        /\ note_in = 69 => note_out = <<"A", "4">>
        /\ note_in = 0 => note_out = <<"C", "-", "1">>
        /\ note_in = 127 => note_out = <<"G", "9">>
        /\ note_in < 0 => note_out = <<"C", "-", "1">>
        /\ note_in > 127 => note_out = <<"G", "9">>

\* note 128 has been clamped and named G9
C11_Witness == pc = "noted" /\ note_in = 128 /\ note_out = <<"G", "9">>

(***************************************************************************)
(* Specification SpecRepeat: build_camelot_session called twice on the     *)
(* same concert, mode and source path, each call reading the clock         *)
(***************************************************************************)
InitRepeat ==
    /\ pc = "start"
    /\ \E n \in 0..1 :
         \E ps \in [1..n -> PatchSeqs] : concert = ConcertOf(SetsOf(n, ps))
    /\ flatten_sets = FALSE
    /\ session = NoSession
    /\ session_again = NoSession
    /\ IdleNames
    /\ IdleStrips
    /\ IdleWalker
    /\ IdleResolver
    /\ IdleNotes
    /\ IdleTempo
    /\ IdleFolder

BuildAgain ==
    /\ pc = "mapped"
    /\ \E now \in 1..MaxClock :
         session_again' = build_camelot_session(concert, flatten_sets, SourcePath, now)
    /\ concert' = ConcertAfterMapping(concert, flatten_sets)
    /\ pc' = "repeated"
    /\ UNCHANGED <<flatten_sets, session, namesVars, stripVars, walkerVars,
                   resolverVars, notesVars, tempoVars, folderVars>>

NextRepeat == BuildSession \/ BuildAgain

SpecRepeat == InitRepeat /\ [][NextRepeat]_vars

\* C12: two calls of build_camelot_session on the same Concert, mode and
\* source path return identical sessions, whenever they run.
C12_Deterministic == pc = "repeated" => session_again = session

\* the session without its two clock readings
Untimed(s) == [s EXCEPT !.createdAt = <<>>, !.source.extractedAt = <<>>]

\* C12, amended: the two sessions are identical except for createdAt and
\* source.extractedAt, which hold the time of each call.
C12_DeterministicButTimestamps ==
    pc = "repeated" =>
        /\ Untimed(session_again) = Untimed(session)
        /\ session.source.extractedAt = session.createdAt
        /\ session_again.source.extractedAt = session_again.createdAt

\* a concert with a song has been mapped twice, at two different times
C12_Witness ==
    /\ pc = "repeated"
    /\ Len(session.songs) > 0
    /\ session_again.createdAt # session.createdAt
    /\ session_again.songs = session.songs

(***************************************************************************)
(* Specification SpecDepth: extract_sets_and_patches on documents whose    *)
(* patch list lies at some depth below the root                            *)
(***************************************************************************)
WrapperKeys == <<"project", "mixer", "settings", "concert">>

\* the map inner wrapped in depth maps, one inside the other
RECURSIVE Nest(_, _)
Nest(depth, inner) ==
    IF depth = 0 THEN inner
    ELSE DictOf(WrapperKeys[depth] :> Nest(depth - 1, inner))

\* the nodes of the nested patch list: a patch, a set of one patch, a node of
\* no known kind
DepthNodes ==
    { PatchLeaf,
      DictOf("type" :> PStr(<<"M", "A", "S", "e", "t">>) @@ "title" :> Lead
             @@ "children" :> PList(<<PatchLeaf>>)),
      DictOf("name" :> Lead) }

InitDepth ==
    /\ pc = "start"
    /\ \E depth \in 0..MaxDepth, key \in {"children", "sets", "PatchList"}, emptyAtRoot \in BOOLEAN :
         \E n \in 0..MaxChildren :
           \E children \in [1..n -> DepthNodes] :
             LET doc == Nest(depth, DictOf(key :> PList(children)))
             IN  raw_doc = IF emptyAtRoot /\ "children" \notin DOMAIN doc.v
                           THEN PDict(doc.v @@ "children" :> PList(<<>>))
                           ELSE doc
    /\ walk_out = NoWalk
    /\ class_out = NoClass
    /\ IdleNames
    /\ IdleMapper
    /\ IdleStrips
    /\ IdleResolver
    /\ IdleNotes
    /\ IdleTempo
    /\ IdleFolder

NextDepth == ExtractSetsAndPatches

SpecDepth == InitDepth /\ [][NextDepth]_vars

\* a non-empty sequence under a ranked key of the root, or of a map-valued
\* child of the root
FoundWithinOneLevel(raw) ==
    \/ FirstPatchList(raw, PatchListKeys).t # "none"
    \/ \E k \in DOMAIN raw :
         raw[k].t = "dict" /\ FirstPatchList(raw[k].v, PatchListKeys).t # "none"

\* C13: the search for the patch list looks at the root and one level down
\* only; when no candidate is there (it lies two or more map levels below the
\* root, or nowhere) the walker returns the single Set "Default" holding the
\* full recursive patch scan of the document.
C13_SingleLevelSearch ==
    (pc = "walked" /\ ~walk_out.raised /\ ~FoundWithinOneLevel(raw_doc.v)) =>
        walk_out.value = <<Set(str_Default, extract_patches_recursive(raw_doc), PDict(EmptyDict))>>

(***************************************************************************)
(* Specification SpecTempo: the tempo of a legacy patch's data.plist, as   *)
(* the legacy adapter and as the tree walker infer it                      *)
(***************************************************************************)
FlagValues == { Absent, PBool(TRUE), PBool(FALSE), PInt(1) }

\* tempo fields: absent, an integer, a float, a boolean, a text
TempoValues == { Absent, PInt(120), PFloat(90), PBool(TRUE), PStr(<<"1", "2", "0">>) }

EngineNodes ==
    { DictOf("hasTempo" :> own @@ "followMIDITempo" :> follow @@ "tempo" :> tempo) :
        own \in FlagValues, follow \in FlagValues, tempo \in TempoValues }

\* decoded data.plist files: a patch with an engine node, with or without a
\* tempo of its own beside it; a patch whose engine node is no map; a patch
\* that is no map; a document that is no map
PatchDocuments ==
    { DictOf("patch" :> DictOf("engineNode" :> eng @@ "tempo" :> direct)) :
        eng \in EngineNodes, direct \in { Absent, PInt(100) } }
    \cup { DictOf("patch" :> DictOf("engineNode" :> PInt(120))),
           DictOf("patch" :> DictOf("name" :> Lead)),
           DictOf("patch" :> PInt(120)),
           PDict(EmptyDict),
           PList(<<PInt(120)>>) }

InitTempo ==
    /\ pc = "start"
    /\ raw_patch \in PatchDocuments
    /\ bpm_legacy = NoBpm
    /\ bpm_generic = NoBpm
    /\ IdleNames
    /\ IdleMapper
    /\ IdleStrips
    /\ IdleWalker
    /\ IdleResolver
    /\ IdleNotes
    /\ IdleFolder

\* the legacy adapter, line 46
InferBpmFromPatchDict ==
    /\ ~bpm_legacy.done
    /\ bpm_legacy' = [done |-> TRUE, value |-> infer_bpm_from_patch_dict(raw_patch)]
    /\ pc' = "inferred"
    /\ UNCHANGED <<raw_patch, bpm_generic, namesVars, mapperVars, stripVars, walkerVars,
                   resolverVars, notesVars, folderVars>>

\* the tree walker, line 308, on the patch map of the same document
InferBpmFromNode ==
    /\ ~bpm_generic.done
    /\ raw_patch.t = "dict"
    /\ Get(raw_patch.v, "patch").t = "dict"
    /\ bpm_generic' = [done |-> TRUE, value |-> infer_bpm_from_node(raw_patch.v["patch"].v)]
    /\ pc' = "inferred"
    /\ UNCHANGED <<raw_patch, bpm_legacy, namesVars, mapperVars, stripVars, walkerVars,
                   resolverVars, notesVars, folderVars>>

NextTempo == InferBpmFromPatchDict \/ InferBpmFromNode

SpecTempo == InitTempo /\ [][NextTempo]_vars

\* the engine node of the document, None when the path patch -> engineNode
\* does not lead to a map
EngineOf(raw) ==
    IF raw.t = "dict" /\ Get(raw.v, "patch").t = "dict"
       /\ Get(Get(raw.v, "patch").v, "engineNode").t = "dict"
    THEN Get(Get(raw.v, "patch").v, "engineNode")
    ELSE None

\* the engine follows the external tempo and has no tempo of its own
FollowsExternal(eng) ==
    /\ "followMIDITempo" \in DOMAIN eng.v
    /\ eng.v["followMIDITempo"] \in { PBool(TRUE), PInt(1) }
    /\ ("hasTempo" \notin DOMAIN eng.v \/ eng.v["hasTempo"] = PBool(FALSE))

\* the value at patch -> engineNode -> tempo as a float, None when it is not
\* numeric
EngineTempo(eng) ==
    IF "tempo" \notin DOMAIN eng.v THEN None
    ELSE IF eng.v["tempo"].t \in {"int", "float"} THEN PFloat(eng.v["tempo"].v)
    ELSE IF eng.v["tempo"] = PBool(TRUE) THEN PFloat(1)
    ELSE None

\* C14: the legacy adapter takes the tempo from patch -> engineNode -> tempo
\* when it is numeric, and reports none when the engine follows the external
\* tempo instead of its own; the tree walker has no such rule and reports the
\* tempo found on the node whatever the flags are.
C14_TempoSuppression ==
    /\ bpm_legacy.done =>
         bpm_legacy.value =
             IF EngineOf(raw_patch).t = "none" THEN None
             ELSE IF FollowsExternal(EngineOf(raw_patch)) THEN None
             ELSE EngineTempo(EngineOf(raw_patch))
    /\ (bpm_generic.done /\ EngineOf(raw_patch).t = "dict") =>
         LET direct == Get(raw_patch.v["patch"].v, "tempo")
         IN  bpm_generic.value =
                 IF direct.t = "int" THEN PFloat(direct.v)
                 ELSE EngineTempo(EngineOf(raw_patch))

\* an engine that follows the external tempo and holds tempo 120: the legacy
\* adapter has reported none, the tree walker 120
C14_Witness ==
    /\ bpm_legacy.done
    /\ bpm_generic.done
    /\ EngineOf(raw_patch).t = "dict"
    /\ FollowsExternal(EngineOf(raw_patch))
    /\ EngineTempo(EngineOf(raw_patch)) = PFloat(120)
    /\ bpm_legacy.value = None
    /\ bpm_generic.value = PFloat(120)

(***************************************************************************)
(* Specification SpecFolder: extract_from_patch_folder on a legacy folder  *)
(***************************************************************************)
DirEntry == [kind |-> "dir", readable |-> FALSE, doc |-> None]
FileEntry(doc) == [kind |-> "file", readable |-> TRUE, doc |-> doc]
Unreadable == [kind |-> "file", readable |-> FALSE, doc |-> None]
Missing == [kind |-> "absent", readable |-> FALSE, doc |-> None]

DirectChannel == DictOf("name" :> PStr(<<"D">>))
NestedChannel == DictOf("name" :> PStr(<<"N">>))

\* the documents of a patch's own data.plist: channels and a tempo, channels
\* and an engine that follows the external tempo, an empty map, an array
DirectDocuments ==
    { DictOf("channels" :> PList(<<DirectChannel, PInt(3)>>)
             @@ "patch" :> DictOf("engineNode" :> DictOf("tempo" :> PInt(120)))),
      DictOf("channels" :> PList(<<DirectChannel>>)
             @@ "patch" :> DictOf("engineNode" :> FollowingEngine)),
      PDict(EmptyDict),
      PList(<<PInt(1)>>) }

NestedDocument == DictOf("channels" :> PList(<<NestedChannel>>))

APatch == <<<<"A">> \o str_dotpatch>>
BPatch == <<<<"B">> \o str_dotpatch>>
SubPatch == APatch \o <<<<"S", "u", "b">> \o str_dotpatch>>
DeepPaths ==
    { APatch \o << <<"G", "r", "p">>, <<"D", "e", "e", "p">> \o str_dotpatch >>,
      SubPatch \o << <<"I", "n">> \o str_dotpatch >>,
      APatch \o << str_dotpatch >> }

\* the data.plist entries a directory can hold
DirectChoices == { Missing, Unreadable, DirEntry } \cup { FileEntry(d) : d \in DirectDocuments }
NestedChoices == { Missing, Unreadable, FileEntry(NestedDocument), FileEntry(PList(<<PInt(1)>>)) }

\* the directories above the path q
Parents(q) == { SubSeq(q, 1, n) : n \in 1..(Len(q) - 1) }

\* the folder that holds the pairs of a path and its entry, and the
\* directories above them
TreeOf(pairs) ==
    LET given == { e[1] : e \in { x \in pairs : x[2].kind # "absent" } }
        above == UNION { Parents(e[1]) : e \in pairs }
    IN  [ q \in given \cup above |->
            IF q \in given THEN (CHOOSE e \in pairs : e[1] = q)[2] ELSE DirEntry ]

InitFolder ==
    /\ pc = "start"
    /\ \/ \E direct \in DirectChoices, sub \in NestedChoices, withSub \in BOOLEAN,
             deep \in SUBSET DeepPaths, withB \in BOOLEAN, junk \in BOOLEAN :
            /\ Cardinality(deep) <= 1
            /\ folder = TreeOf(
                 { <<APatch, DirEntry>>, <<Append(APatch, str_data_plist), direct>> }
                 \cup (IF withSub
                       THEN { <<SubPatch, DirEntry>>, <<Append(SubPatch, str_data_plist), sub>> }
                       ELSE {})
                 \cup { <<q, DirEntry>> : q \in deep }
                 \cup { <<Append(q, str_data_plist), FileEntry(NestedDocument)>> : q \in deep }
                 \cup (IF withB THEN { <<BPatch, DirEntry>> } ELSE {})
                 \cup (IF junk
                       THEN { << <<<<"N", "o", "t", "e", "s">>>>, DirEntry >>,
                              << <<<<"F">> \o str_dotpatch>>, Unreadable >> }
                       ELSE {}))
       \/ \E withB \in BOOLEAN :
            folder = TreeOf(IF withB THEN { <<BPatch, DirEntry>> } ELSE {})
    /\ legacy_sets = NoWalk
    /\ IdleNames
    /\ IdleMapper
    /\ IdleStrips
    /\ IdleWalker
    /\ IdleResolver
    /\ IdleNotes
    /\ IdleTempo

ExtractFromPatchFolder ==
    /\ pc = "start"
    /\ legacy_sets' = IF extract_from_patch_folder_raises(folder)
                      THEN [raised |-> TRUE, value |-> <<>>]
                      ELSE [raised |-> FALSE, value |-> extract_from_patch_folder(folder)]
    /\ pc' = "folded"
    /\ UNCHANGED <<folder, namesVars, mapperVars, stripVars, walkerVars, resolverVars,
                   notesVars, tempoVars>>

NextFolder == ExtractFromPatchFolder

SpecFolder == InitFolder /\ [][NextFolder]_vars

\* the labels of the nested patch directories of the folders
NestedLabels ==
    { <<"S", "u", "b">>,
      <<"G", "r", "p", SP, EMDASH, SP, "D", "e", "e", "p">>,
      <<"S", "u", "b", ".", "p", "a", "t", "c", "h", SP, EMDASH, SP, "I", "n">> }

\* C15: the legacy adapter returns exactly one Set, named "Concert", with one
\* Patch for each top-level patch directory in sorted order, whatever the
\* directories hold; a strip from a nested patch directory carries the
\* "subpatch" label of its relative path, a strip of the patch itself none.
C15_LegacyAdapter ==
    pc = "folded" =>
        /\ ~legacy_sets.raised
        /\ Len(legacy_sets.value) = 1
        /\ legacy_sets.value[1].name = <<"C", "o", "n", "c", "e", "r", "t">>
        /\ LET patches == legacy_sets.value[1].patches
               names == (IF APatch \in DOMAIN folder THEN << <<"A">> >> ELSE <<>>)
                        \o (IF BPatch \in DOMAIN folder THEN << <<"B">> >> ELSE <<>>)
           IN  /\ Len(patches) = Len(names)
               /\ \A i \in 1..Len(patches) :
                    /\ patches[i].name = names[i]
                    /\ \A j \in 1..Len(patches[i].channel_strips) :
                         LET cs == patches[i].channel_strips[j]
                         IN  IF cs.name = <<"N">>
                             THEN /\ "subpatch" \in DOMAIN cs.notes.v
                                  /\ cs.notes.v["subpatch"].v \in NestedLabels
                             ELSE "subpatch" \notin DOMAIN cs.notes.v

====
